---- MODULE Spec2Model ----
(***************************************************************************)
(* Model of the telemetry pipeline of mission-control.                     *)
(* The relay (src/relay/server.ts): the /events gate (rate limiter,        *)
(* duplicate gate), the sink forwarder, /tools and /batch, the file-read   *)
(* batcher with its timers, and the shutdown drain.                        *)
(* The backfill scanner (src/scripts/backfill-activities.ts): runs over    *)
(* transcript files with persisted offsets and the dedup layers.           *)
(***************************************************************************)
EXTENDS Integers, Sequences, FiniteSets, TLC

VARIABLES
    now,             \* Date.now(), in ms
    exited,          \* process.exit(0) was called
    lastEventTime,   \* Map<eventType, ms>
    recentTitles,    \* Map<title, ms>
    evlog,           \* history: one record per POST /events request, in arrival order
    sink,            \* history: every POST issued to the sink, in issue order
    fwdLog,          \* history of stand-alone forwardToConvex calls
    fileReadBuckets, \* Map<bucketKey, FileReadBucket>, in insertion order
    timers,          \* armed setTimeout handles of the batcher
    tlog,            \* history: one record per tool call received, in arrival order
    flushes,         \* every flushFileReadBucket call that found its bucket
    drains,          \* flushAllFileReadBuckets calls started by SIGINT/SIGTERM
    batches,         \* one record per POST /batch request: its loop and its response
    files,           \* the transcript files, in mtime order
    stateFile,       \* scripts/.backfill-state.json: path -> lineOffset
    store,           \* the activities held by the external store
    run,             \* the backfill process: its position and its locals
    trail,           \* history: what the scanner did, in order
    hist,            \* history: one record per ended backfill run
    probe            \* one call of a pure function: its argument and its result

gateVars == <<lastEventTime, recentTitles, evlog>>
batchVars == <<fileReadBuckets, timers, tlog, flushes, drains, batches>>
scanVars == <<files, stateFile, store, run, trail, hist>>
vars == <<now, exited, lastEventTime, recentTitles, evlog, sink, fwdLog,
          fileReadBuckets, timers, tlog, flushes, drains, batches,
          files, stateFile, store, run, trail, hist, probe>>

(* ---- program constants ------------------------------------------------ *)
RATE_LIMIT_MS == 1000
DEDUP_WINDOW_MS == 30000
FILE_READ_BATCH_THRESHOLD == 5
FILE_READ_BATCH_WINDOW_MS == 10000

(* ---- bounds ----------------------------------------------------------- *)
MaxEvents == 3
RateHorizon == 1999
DedupHorizon == 60001
BatchHorizon == 20002
MaxForwardCalls == 2
MaxTools == 2
MaxBurst == 5
MaxDirect == 1
MaxSinkFailures == 1
MaxSignals == 1
MaxToolCalls == 2
MaxInvalid == 1
MaxBatches == 1
MaxRuns == 2
MaxPostFailures == 1
MaxQueryFailures == 1
MaxNameLen == 2
MaxDepth == 1
MaxEntries == 6
MaxLive == 5
LiveHorizon == 10001
GateHorizon == 1000

(* The clock of a running process is a present-day epoch value, far above   *)
(* every window of the program; the model starts it above all of them.      *)
EpochStart == DEDUP_WINDOW_MS + FILE_READ_BATCH_WINDOW_MS + RATE_LIMIT_MS

EventTypes == {"tool_call", "cron_fire"}
Titles == {"Daily Sync", "Ran build"}
Missing == ""
\* request bodies of POST /events: (event, title); Missing is an absent field
EventBodies == (EventTypes \X Titles)
                   \cup {<<Missing, "Daily Sync">>, <<"tool_call", Missing>>}
\* clock advances that put the next request just inside or just outside a window
RateDeltas == {RATE_LIMIT_MS - 1, RATE_LIMIT_MS}
DedupDeltas == {DEDUP_WINDOW_MS, DEDUP_WINDOW_MS + 1}
BatchDeltas == {FILE_READ_BATCH_WINDOW_MS, FILE_READ_BATCH_WINDOW_MS + 1}
\* bucket keys sessionKey:directory, in the order in which requests first use them
BucketKeys == <<"s1:src", "s1:docs">>
NoKey == "-"

(* ---- helpers ---------------------------------------------------------- *)
MapSet(m, k, v) == [x \in (DOMAIN m) \cup {k} |-> IF x = k THEN v ELSE m[x]]
MapGetOr(m, k, d) == IF k \in DOMAIN m THEN m[k] ELSE d
Max(S) == CHOOSE x \in S : \A y \in S : y <= x

(* ---- sink forwarder --------------------------------------------------- *)
Statuses == {200, 201, 204, 299, 300, 404, 500}
Bodies == {"empty", "garbage", "null", "noOk", "okTrue", "okFalse", "okNull"}
Responses == [net : {FALSE}, status : Statuses, body : Bodies]
                 \cup {[net |-> TRUE, status |-> 0, body |-> "empty"]}
SinkOk == [net |-> FALSE, status |-> 200, body |-> "okTrue"]
RelayResponses ==
    { SinkOk,
      [net |-> FALSE, status |-> 500, body |-> "garbage"],
      [net |-> TRUE, status |-> 0, body |-> "empty"] }

\* fetch's response.ok
ResponseOk(resp) == resp.status >= 200 /\ resp.status <= 299

ParsedOk_Always(body) == TRUE
\* data.ok ?? true after JSON.parse(bodyText); a parse failure, and JSON null
\* (reading .ok of null throws inside the inner try), give true
ParsedOk(body) == IF body = "okFalse" THEN FALSE ELSE TRUE

forwardToConvex(resp) ==
    IF resp.net THEN [ok |-> FALSE, error |-> "message"]
    ELSE IF ~ResponseOk(resp) THEN [ok |-> FALSE, error |-> "HTTP status"]
    ELSE IF resp.body = "empty" THEN [ok |-> TRUE, error |-> "none"]
    ELSE [ok |-> ParsedOk(resp.body), error |-> "none"]

\* one POST to the sink: src is the code path that issued it, ref the request
\* (or flush) it belongs to, entries the buffered tool calls it carries, gated
\* whether isRateLimited and isDuplicate were consulted for it
Post(src, ref, bucket, entries, collapsed, gated) ==
    [src |-> src, ref |-> ref, bucket |-> bucket, entries |-> entries,
     collapsed |-> collapsed, gated |-> gated, result |-> "pending",
     surfaced |-> FALSE]

ResultOf(r) == IF r.ok THEN "ok" ELSE "fail"
Failures == Cardinality({p \in 1..Len(sink) : sink[p].result = "fail"})
\* the sink may answer resp: the model lets it fail MaxSinkFailures times
MayAnswer(resp) == forwardToConvex(resp).ok \/ Failures < MaxSinkFailures

(* ---- rate limiter and duplicate gate ---------------------------------- *)
RateLimitHit_Inclusive(last, t) == t - last <= RATE_LIMIT_MS
RateLimitHit(last, t) == t - last < RATE_LIMIT_MS

isRateLimited(eventType) == RateLimitHit(MapGetOr(lastEventTime, eventType, 0), now)
lastEventTimeAfter_Keep(eventType) == lastEventTime
lastEventTimeAfter(eventType) ==
    IF isRateLimited(eventType) THEN lastEventTime
    ELSE MapSet(lastEventTime, eventType, now)

Expired_Inclusive(time, t) == t - time >= DEDUP_WINDOW_MS
Expired(time, t) == t - time > DEDUP_WINDOW_MS

Swept(titles) == [x \in {y \in DOMAIN titles : ~Expired(titles[y], now)} |-> titles[x]]
isDuplicate(title) == title \in DOMAIN Swept(recentTitles)
recentTitlesAfter_Always(title) == MapSet(Swept(recentTitles), title, now)
recentTitlesAfter(title) ==
    IF isDuplicate(title) THEN Swept(recentTitles)
    ELSE MapSet(Swept(recentTitles), title, now)

(* ---- POST /events ----------------------------------------------------- *)
EvRec(event, title, resp, post) ==
    [event |-> event, title |-> title, at |-> now, resp |-> resp, post |-> post]

Malformed_EventOnly(event, title) == event = Missing
\* !event.event || !event.title
Malformed(event, title) == event = Missing \/ title = Missing

EventsArrive(event, title) ==
    /\ ~exited
    /\ Len(evlog) < MaxEvents
    /\ IF Malformed(event, title)
       THEN /\ evlog' = Append(evlog, EvRec(event, title, "400", 0))
            /\ UNCHANGED <<lastEventTime, recentTitles, sink>>
       ELSE IF isRateLimited(event)
       THEN /\ evlog' = Append(evlog, EvRec(event, title, "429", 0))
            /\ UNCHANGED <<lastEventTime, recentTitles, sink>>
       ELSE IF isDuplicate(title)
       THEN /\ lastEventTime' = lastEventTimeAfter(event)
            /\ recentTitles' = recentTitlesAfter(title)
            /\ evlog' = Append(evlog, EvRec(event, title, "dedup", 0))
            /\ UNCHANGED sink
       ELSE /\ lastEventTime' = lastEventTimeAfter(event)
            /\ recentTitles' = recentTitlesAfter(title)
            /\ sink' = Append(sink, Post("events", Len(evlog) + 1, 0, <<>>, FALSE, TRUE))
            /\ evlog' = Append(evlog, EvRec(event, title, "pending", Len(sink) + 1))
    /\ UNCHANGED <<probe, now, exited, fwdLog, batchVars, scanVars>>

EventsRespond(i, resp) ==
    /\ ~exited
    /\ i \in 1..Len(evlog)
    /\ evlog[i].resp = "pending"
    /\ MayAnswer(resp)
    /\ LET result == forwardToConvex(resp)
           p == evlog[i].post
       IN /\ evlog' = [evlog EXCEPT ![i].resp = IF result.ok THEN "200" ELSE "502"]
          /\ sink' = [sink EXCEPT ![p].result = ResultOf(result),
                                  ![p].surfaced = ~result.ok]
    /\ UNCHANGED <<probe, now, exited, lastEventTime, recentTitles, fwdLog, batchVars, scanVars>>

\* the clock advances by d, within the horizon of the model
Tick(d, horizon) ==
    /\ ~exited
    /\ now + d <= EpochStart + horizon
    /\ now' = now + d
    /\ UNCHANGED <<probe, exited, gateVars, sink, fwdLog, batchVars, scanVars>>

\* the instants at which the answer of the rate limiter can change: the last
\* millisecond of a rate window now open and the first one after it
RateEdges ==
    UNION {{lastEventTime[e] + RATE_LIMIT_MS - 1, lastEventTime[e] + RATE_LIMIT_MS} :
               e \in DOMAIN lastEventTime}
\* the clock advances to the next such instant or to a later one, within the
\* horizon of the model
EdgeTick ==
    /\ ~exited
    /\ \E t \in RateEdges : t > now /\ t <= EpochStart + GateHorizon /\ now' = t
    /\ UNCHANGED <<probe, exited, gateVars, sink, fwdLog, batchVars, scanVars>>

(* ---- file-read batcher ------------------------------------------------ *)
\* The batcher's functions are written over a record S of the four variables
\* they touch, so that one handler step can chain several of them:
\* S.b fileReadBuckets, S.t timers, S.s sink, S.f flushes; the handlers of
\* /tools and /batch also carry S.l tlog and S.q batches.
Cur == [b |-> fileReadBuckets, t |-> timers, s |-> sink, f |-> flushes]
Full == [b |-> fileReadBuckets, t |-> timers, s |-> sink, f |-> flushes,
         l |-> tlog, q |-> batches]

BucketIdx(bs, key) == {i \in 1..Len(bs) : bs[i].key = key}
HasBucket(bs, key) == BucketIdx(bs, key) # {}
GetBucket(bs, key) == bs[CHOOSE i \in BucketIdx(bs, key) : TRUE]
RemoveAt(seq, i) == SubSeq(seq, 1, i - 1) \o SubSeq(seq, i + 1, Len(seq))
KeysOf(bs) == [i \in 1..Len(bs) |-> bs[i].key]

DeleteBucket_Keep(bs, key) == bs
\* fileReadBuckets.delete(key)
DeleteBucket(bs, key) == RemoveAt(bs, CHOOSE i \in BucketIdx(bs, key) : TRUE)

ClearTimeout_Keep(ts, id) == ts
\* clearTimeout(bucket.timer)
ClearTimeout(ts, id) == {x \in ts : x.bucket # id}

Collapses_Above(n) == n > FILE_READ_BATCH_THRESHOLD
\* bucket.entries.length >= FILE_READ_BATCH_THRESHOLD
Collapses(n) == n >= FILE_READ_BATCH_THRESHOLD

\* now - existingBucket.startedAt > FILE_READ_BATCH_WINDOW_MS
IsStale(startedAt, t) == t - startedAt > FILE_READ_BATCH_WINDOW_MS

FlushRec(bucket, trigger, owner, post) ==
    [bucket |-> bucket.id, key |-> bucket.key, entries |-> bucket.entries,
     trigger |-> trigger, owner |-> owner, pos |-> 1,
     collapsed |-> Collapses(Len(bucket.entries)), done |-> FALSE, post |-> post]

\* flushFileReadBucket up to its first await: the bucket is looked up, its timer
\* cleared, the bucket deleted, and the first POST issued (the collapsed summary,
\* or the first buffered entry).
flushFileReadBucket(S, key, trigger, owner) ==
    IF ~HasBucket(S.b, key) THEN S
    ELSE LET bucket == GetBucket(S.b, key)
             fi == Len(S.f) + 1
             first == IF Collapses(Len(bucket.entries))
                      THEN Post("flush", fi, bucket.id, bucket.entries, TRUE, FALSE)
                      ELSE Post("flush", fi, bucket.id, <<bucket.entries[1]>>, FALSE, FALSE)
         IN [S EXCEPT !.b = DeleteBucket(S.b, key),
                      !.t = ClearTimeout(S.t, bucket.id),
                      !.s = Append(S.s, first),
                      !.f = Append(S.f, FlushRec(bucket, trigger, owner, Len(S.s) + 1))]

hasError_Every(entries) == \A k \in 1..Len(entries) : entries[k] = "error"
\* bucket.entries.some((entry) => entry.activity.status === "error"), an entry
\* written as the status of its activity
hasError(entries) == \E k \in 1..Len(entries) : entries[k] = "error"

\* the activities flushFileReadBucket posts for a bucket: the collapsed summary
\* if the bucket holds FILE_READ_BATCH_THRESHOLD entries or more, else one
\* activity per entry, in the order of the entries
activitiesOf(bucket) ==
    IF Collapses(Len(bucket.entries))
    THEN LET status == IF hasError(bucket.entries) THEN "error" ELSE "success"
         IN << [type |-> "file", status |-> status,
                importance |-> IF status = "error" THEN 5 ELSE 1,
                tool |-> "file_read_batch", sessionKey |-> bucket.sessionKey,
                fileCount |-> Len(bucket.entries), directory |-> bucket.directory] >>
    ELSE [k \in 1..Len(bucket.entries) |-> [entry |-> k, status |-> bucket.entries[k]]]

\* flushFileReadBucket is called for the bucket of the probe
FlushBucket ==
    /\ probe.fn = "flushFileReadBucket" /\ ~probe.done
    /\ probe' = [probe EXCEPT !.done = TRUE, !.posted = activitiesOf(probe.bucket)]
    /\ UNCHANGED <<now, exited, gateVars, sink, fwdLog, batchVars, scanVars>>

\* queueOrForwardToolActivity from `const currentBucket = ...` on: push onto the
\* bucket of the key, or create one (startedAt is the `now` read on arrival, the
\* timer is armed when this code runs). The bucket is identified by the tool
\* call that created it.
queueEntry(S, r, key, arrivedAt) ==
    IF HasBucket(S.b, key)
    THEN LET i == CHOOSE i \in BucketIdx(S.b, key) : TRUE
         IN [S EXCEPT !.b = [S.b EXCEPT ![i].entries = Append(@, r)]]
    ELSE [S EXCEPT !.b = Append(S.b, [key |-> key, id |-> r, startedAt |-> arrivedAt,
                                      entries |-> <<r>>]),
                   !.t = S.t \cup {[key |-> key, bucket |-> r,
                                    due |-> now + FILE_READ_BATCH_WINDOW_MS]}]

\* flushAllFileReadBuckets from one key of its snapshot on, up to the next await
\* that really suspends: keys whose bucket is gone return 0 at once (counted in
\* empty); the first key that still has a bucket starts a flush.
RECURSIVE drainFrom(_, _, _)
drainFrom(S, keys, d) ==
    IF keys = << >> THEN [S |-> S, keys |-> << >>, waiting |-> FALSE, empty |-> 0]
    ELSE IF HasBucket(S.b, Head(keys))
    THEN [S |-> flushFileReadBucket(S, Head(keys), "shutdown", d),
          keys |-> Tail(keys), waiting |-> TRUE, empty |-> 0]
    ELSE LET rest == drainFrom(S, Tail(keys), d)
         IN [rest EXCEPT !.empty = @ + 1]

Assign(S) ==
    /\ fileReadBuckets' = S.b
    /\ timers' = S.t
    /\ sink' = S.s
    /\ flushes' = S.f

AssignFull(S) ==
    /\ Assign(S)
    /\ tlog' = S.l
    /\ batches' = S.q

\* A JSON value of a request body is modelled by its type and, for a string,
\* its text.
Str(text) == [type |-> "string", str |-> text]
Undefined == [type |-> "undefined", str |-> ""]
NullValue == [type |-> "null", str |-> ""]
ArrayValue == [type |-> "array", str |-> ""]
ObjectValue == [type |-> "object", str |-> ""]

\* String.prototype.trim over the strings of the model
Trim(text) ==
    CASE text = "  " -> ""
      [] text = " error " -> "error"
      [] OTHER -> text

\* typeof value === "object" && value !== null && !Array.isArray(value)
isRecord(value) == value.type = "object"

getString_NoTrim(value) ==
    IF value.type = "string" /\ value.str # "" THEN value.str ELSE Missing
\* getString(obj, key), given obj[key]; undefined is written Missing
getString(value) ==
    IF value.type = "string" /\ Trim(value.str) # "" THEN Trim(value.str) ELSE Missing

\* a request payload: its own JSON type and, for an object, its tool and params
Payload(type, tool, params) == [type |-> type, tool |-> tool, params |-> params]
ReadBody == Payload("object", Str("read_file"), ObjectValue)
ExecBody == Payload("object", Str("exec_command"), ObjectValue)

parseToolCall(payload) ==
    IF ~isRecord(payload)
    THEN [ok |-> FALSE, error |-> "Payload must be an object", tool |-> Missing]
    ELSE IF getString(payload.tool) = Missing
    THEN [ok |-> FALSE, error |-> "Missing required field: tool", tool |-> Missing]
    ELSE IF ~isRecord(payload.params)
    THEN [ok |-> FALSE, error |-> "Missing required field: params (object)", tool |-> Missing]
    ELSE [ok |-> TRUE, error |-> "none", tool |-> getString(payload.tool)]

\* A tool name is a sequence of pieces: a word, written in lower case or not.
\* No word of the model is part of another, so a substring test on the name
\* is a test for a run of pieces.
Piece(word, upper) == [word |-> word, upper |-> upper]
Lc(word) == Piece(word, FALSE)
toLowerCase_Identity(name) == name
\* String.prototype.toLowerCase
toLowerCase(name) == [i \in DOMAIN name |-> Lc(name[i].word)]
\* String.prototype.includes: pattern is a run of lower-case words
includes(name, pattern) ==
    \E i \in 1..(Len(name) - Len(pattern) + 1) :
        \A j \in 1..Len(pattern) : name[i + j - 1] = Lc(pattern[j])
\* /(^|_)(verbs)(_)?file/.test(name)
fileVerbTest(name, verbs) ==
    \E i \in 1..Len(name) :
        /\ i = 1 \/ name[i - 1] = Lc("_")
        /\ \E v \in verbs : name[i] = Lc(v)
        /\ \/ (i + 1 <= Len(name) /\ name[i + 1] = Lc("file"))
           \/ (i + 2 <= Len(name) /\ name[i + 1] = Lc("_") /\ name[i + 2] = Lc("file"))
\* name === text, for a text of one run of words
equals(name, pattern) == Len(name) = Len(pattern) /\ includes(name, pattern)

\* classifyTool (src/scripts/lib/enrich.ts), rule by rule
classifyToolName(name) ==
    LET normalized == toLowerCase(name)
        has(pattern) == includes(normalized, pattern)
    IN IF \/ equals(normalized, <<"exec", "_", "command">>)
          \/ equals(normalized, <<"write", "_", "stdin">>)
          \/ has(<<"exec">>) \/ has(<<"bash">>) \/ has(<<"shell">>)
       THEN "exec"
       ELSE IF has(<<"message">>) \/ has(<<"discord">>) \/ has(<<"telegram">>)
                   \/ has(<<"slack">>)
       THEN "message"
       ELSE IF has(<<"web", "_", "fetch">>) \/ has(<<"web", "fetch">>)
       THEN "web_fetch"
       ELSE IF has(<<"browser">>) \/ has(<<"open", "_", "url">>) \/ has(<<"navigate">>)
                   \/ has(<<"click">>)
       THEN "browser"
       ELSE IF has(<<"cron">>) \/ has(<<"schedule">>)
       THEN "cron"
       ELSE IF has(<<"sessions", "_", "spawn">>) \/ has(<<"spawn", "_", "session">>)
                   \/ has(<<"subagent">>)
       THEN "sessions_spawn"
       ELSE IF \/ fileVerbTest(normalized, {"read", "cat", "view", "open"})
               \/ has(<<"read", "file">>)
               \/ equals(normalized, <<"read">>)
       THEN "file_read"
       ELSE IF \/ fileVerbTest(normalized, {"write", "edit", "patch", "modify", "update", "save"})
               \/ has(<<"apply", "_", "patch">>)
               \/ has(<<"write", "file">>)
               \/ equals(normalized, <<"write">>)
               \/ equals(normalized, <<"edit">>)
       THEN "file_modify"
       ELSE "unknown"

\* inferActivityType
inferActivityType(kind) ==
    CASE kind = "exec" -> "code"
      [] kind = "message" -> "message"
      [] kind \in {"file_read", "file_modify"} -> "file"
      [] kind = "browser" -> "browser"
      [] kind = "cron" -> "cron"
      [] kind = "web_fetch" -> "search"
      [] OTHER -> "system"

\* JSON numbers and booleans, written like the other values of the model
Num(text) == [type |-> "number", str |-> text]
Bool(text) == [type |-> "boolean", str |-> text]
\* a value in a boolean context
Truthy(value) ==
    CASE value.type \in {"undefined", "null"} -> FALSE
      [] value.type = "string" -> value.str # ""
      [] value.type = "number" -> value.str \notin {"0", "NaN"}
      [] value.type = "boolean" -> value.str = "true"
      [] OTHER -> TRUE
\* typeof value === "number" && Number.isFinite(value)
isFiniteNumber(value) == value.type = "number" /\ value.str # "NaN"
getNumber_Last(first, second) ==
    IF isFiniteNumber(second) THEN second
    ELSE IF isFiniteNumber(first) THEN first ELSE Undefined
\* getNumber(obj, k1, k2), given obj[k1] and obj[k2]
getNumber(first, second) ==
    IF isFiniteNumber(first) THEN first
    ELSE IF isFiniteNumber(second) THEN second ELSE Undefined
\* the object with the value under details
With(result, details) ==
    [type |-> "object", status |-> result.status, error |-> result.error,
     errorMessage |-> result.errorMessage, isError |-> result.isError,
     ok |-> result.ok, success |-> result.success, exitCode |-> result.exitCode,
     code |-> result.code, details |-> details]

RECURSIVE inferStatusFromResult(_)
inferStatusFromResult(result) ==
    IF result.type = "undefined" THEN "success"
    ELSE LET explicitStatus == getString(result.status)
             exitCode == getNumber(result.exitCode, result.code)
         IN IF explicitStatus \in {"error", "pending", "success"} THEN explicitStatus
            ELSE IF Truthy(result.error) \/ Truthy(result.errorMessage)
                        \/ result.isError = Bool("true")
            THEN "error"
            ELSE IF result.ok = Bool("false") \/ result.success = Bool("false")
            THEN "error"
            ELSE IF exitCode.type = "number" /\ exitCode.str # "0"
            THEN "error"
            ELSE IF isRecord(result.details)
            THEN inferStatusFromResult(result.details)
            ELSE "success"

\* inferStatusFromResult(result) is called for the result of the probe
InferStatus ==
    /\ probe.fn = "inferStatus" /\ ~probe.done
    /\ probe' = [probe EXCEPT !.done = TRUE, !.status = inferStatusFromResult(probe.result)]
    /\ UNCHANGED <<now, exited, gateVars, sink, fwdLog, batchVars, scanVars>>

\* the tool names that requests and transcripts of the model carry, in pieces
Spell(tool) ==
    CASE tool = "exec_command" -> <<Lc("exec"), Lc("_"), Lc("command")>>
      [] tool = "read_file" -> <<Lc("read"), Lc("_"), Lc("file")>>
      [] tool = "Read_File" -> <<Piece("read", TRUE), Lc("_"), Piece("file", TRUE)>>
      [] OTHER -> <<Lc(tool)>>

\* the tool names of the transcripts and of the request bodies
ModelTools == {"", "unknown", "exec_command", "read_file", "Read_File", "mystery"}
\* classifyTool, computed once for each of them
kindOfTool == [tool \in ModelTools |-> classifyToolName(Spell(tool))]
\* classifyTool over the tool names of the model
classifyTool(tool) ==
    IF tool \in ModelTools THEN kindOfTool[tool] ELSE classifyToolName(Spell(tool))

\* toolToActivityType(tool) is called for the name of the probe
Classify ==
    /\ probe.fn = "classifyTool" /\ ~probe.done
    /\ probe' = [probe EXCEPT !.done = TRUE,
                              !.kind = classifyToolName(probe.name),
                              !.type = inferActivityType(classifyToolName(probe.name))]
    /\ UNCHANGED <<now, exited, gateVars, sink, fwdLog, batchVars, scanVars>>

\* the bucket key of a payload when the request does not choose one: all file
\* reads are of one session and directory
KeyOfBody(body) ==
    IF classifyTool(parseToolCall(body).tool) = "file_read" THEN BucketKeys[1] ELSE NoKey

\* GET /health: queuedFileReadBuckets is fileReadBuckets.size
queuedFileReadBuckets(bs) == Len(bs)

\* bucket: the bucket the call was buffered in (0: none)
TRec(body, kind, key, resp, post, bucket) ==
    [body |-> body, kind |-> kind, key |-> key, at |-> now, resp |-> resp,
     post |-> post, bucket |-> bucket]

\* parseToolCall and processToolCall for one payload, up to the first await:
\* the tool call is logged with the outcome it has so far. resp is the outcome
\* of processToolCall, written as POST /tools answers it.
receive(S, body, key) ==
    LET r == Len(S.l) + 1
        parsed == parseToolCall(body)
        kind == classifyTool(parsed.tool)
    IN IF ~parsed.ok
       THEN [S EXCEPT !.l = Append(@, TRec(body, "invalid", key, "400", 0, 0))]
       ELSE IF kind # "file_read"
       THEN [S EXCEPT !.s = Append(@, Post("tools", r, 0, <<r>>, FALSE, FALSE)),
                      !.l = Append(@, TRec(body, kind, key, "pending", Len(S.s) + 1, 0))]
       ELSE IF HasBucket(S.b, key) /\ IsStale(GetBucket(S.b, key).startedAt, now)
       THEN [flushFileReadBucket(S, key, "stale", r) EXCEPT
                      !.l = Append(@, TRec(body, kind, key, "pending", 0, 0))]
       ELSE LET S1 == queueEntry(S, r, key, now)
            IN [S1 EXCEPT !.l = Append(@, TRec(body, kind, key, "202 buffered", 0,
                                                GetBucket(S1.b, key).id))]

\* POST /tools up to its first await
ToolsArrive(body, key, max) ==
    /\ ~exited
    /\ Len(tlog) < max
    /\ AssignFull(receive(Full, body, key))
    /\ UNCHANGED <<probe, now, exited, gateVars, fwdLog, drains, scanVars>>

(* ---- POST /batch ------------------------------------------------------- *)
\* index: the loop variable (0-based); waiting: the tool call whose
\* processToolCall the loop awaits (0: none); refs: the tool calls of the items
\* taken so far, in the order the loop took them
BatchRec(payload) ==
    [payload |-> payload, index |-> 0, waiting |-> 0, refs |-> << >>,
     accepted |-> 0, buffered |-> 0, forwarded |-> 0, errors |-> << >>,
     status |-> "pending", ok |-> FALSE]

ErrorsEmpty_Never(errors) == FALSE
\* errors.length === 0
ErrorsEmpty(errors) == Len(errors) = 0

\* the loop body after processToolCall returned outcome for item index
countOutcome(B, index, outcome) ==
    IF outcome = "502"
    THEN [B EXCEPT !.errors = Append(@, [index |-> index,
                                         error |-> "Failed to forward activity"])]
    ELSE [B EXCEPT !.accepted = @ + 1,
                   !.buffered = IF outcome = "202 buffered" THEN @ + 1 ELSE @,
                   !.forwarded = IF outcome = "202 forwarded" THEN @ + 1 ELSE @]

\* the for loop of POST /batch from its current index, up to the next await
\* that suspends, or to the response
RECURSIVE batchLoop(_, _)
batchLoop(S, bi) ==
    LET B == S.q[bi]
    IN IF B.index >= Len(B.payload.items)
       THEN [S EXCEPT !.q[bi].status = IF ErrorsEmpty(B.errors) THEN "202" ELSE "207",
                      !.q[bi].ok = ErrorsEmpty(B.errors)]
       ELSE LET body == B.payload.items[B.index + 1]
                r == Len(S.l) + 1
                S1 == receive(S, body, KeyOfBody(body))
                outcome == S1.l[r].resp
            IN IF outcome = "400"
               THEN batchLoop([S1 EXCEPT
                        !.q[bi].errors = Append(@, [index |-> B.index,
                                                    error |-> parseToolCall(body).error]),
                        !.q[bi].index = @ + 1,
                        !.q[bi].refs = Append(@, r)], bi)
               ELSE IF outcome = "pending"
               THEN [S1 EXCEPT !.q[bi].waiting = r, !.q[bi].refs = Append(@, r)]
               ELSE batchLoop([S1 EXCEPT
                        !.q[bi] = [countOutcome(@, B.index, outcome) EXCEPT
                                      !.index = @ + 1, !.refs = Append(@, r)]], bi)

\* processToolCall of tool call r has returned: the /batch loop that awaited it
\* counts the outcome and goes on
resumeBatch(S, r) ==
    LET W == {bi \in 1..Len(S.q) : S.q[bi].waiting = r}
    IN IF W = {} THEN S
       ELSE LET bi == CHOOSE x \in W : TRUE
                B == S.q[bi]
            IN batchLoop([S EXCEPT !.q[bi] =
                             [countOutcome(B, B.index, S.l[r].resp) EXCEPT
                                 !.index = @ + 1, !.waiting = 0]], bi)

ArrayPayload(items) == [type |-> "array", items |-> items]
ObjectPayload == [type |-> "object", items |-> << >>]

\* POST /batch up to its first await that suspends
BatchArrive(payload) ==
    /\ ~exited
    /\ Len(batches) < MaxBatches
    /\ IF payload.type # "array"
       THEN /\ batches' = Append(batches, [BatchRec(payload) EXCEPT !.status = "400"])
            /\ UNCHANGED <<fileReadBuckets, timers, sink, flushes, tlog>>
       ELSE AssignFull(batchLoop([Full EXCEPT !.q = Append(@, BatchRec(payload))],
                                 Len(batches) + 1))
    /\ UNCHANGED <<probe, now, exited, gateVars, fwdLog, drains, scanVars>>

\* the sink answers the POST of a tool call that is not a file read
ToolsRespond(r, resp) ==
    /\ ~exited
    /\ r \in 1..Len(tlog)
    /\ tlog[r].kind \notin {"file_read", "invalid"} /\ tlog[r].resp = "pending"
    /\ MayAnswer(resp)
    /\ LET result == forwardToConvex(resp)
           p == tlog[r].post
           S1 == [Full EXCEPT
                     !.l[r].resp = IF result.ok THEN "202 forwarded" ELSE "502",
                     !.s[p].result = ResultOf(result),
                     !.s[p].surfaced = ~result.ok]
       IN AssignFull(resumeBatch(S1, r))
    /\ UNCHANGED <<probe, now, exited, gateVars, fwdLog, drains, scanVars>>

\* the setTimeout callback of a bucket runs (not before it is due)
TimerFire(tm) ==
    /\ ~exited
    /\ tm \in timers
    /\ tm.due <= now
    /\ Assign(flushFileReadBucket([Cur EXCEPT !.t = @ \ {tm}], tm.key, "timer", 0))
    /\ UNCHANGED <<probe, now, exited, gateVars, fwdLog, tlog, drains, batches, scanVars>>

MoreToPost_Never(f) == FALSE
\* the loop `for (const entry of bucket.entries)` has an entry left to post
MoreToPost(f) == ~f.collapsed /\ f.pos < Len(f.entries)

\* the sink answers the POST a flush is awaiting; the result is dropped. The
\* flush goes on to its next entry, or returns to whoever awaited it.
FlushRespond(fi, resp) ==
    /\ ~exited
    /\ fi \in 1..Len(flushes)
    /\ ~flushes[fi].done
    /\ MayAnswer(resp)
    /\ LET f == flushes[fi]
           result == forwardToConvex(resp)
           S1 == [Full EXCEPT !.s = [@ EXCEPT ![f.post].result = ResultOf(result)]]
       IN IF MoreToPost(f)
          THEN /\ AssignFull([S1 EXCEPT
                     !.s = Append(@, Post("flush", fi, f.bucket,
                                          <<f.entries[f.pos + 1]>>, FALSE, FALSE)),
                     !.f = [@ EXCEPT ![fi].pos = f.pos + 1,
                                     ![fi].post = Len(sink) + 1]])
               /\ UNCHANGED <<drains, exited>>
          ELSE LET S2 == [S1 EXCEPT !.f = [@ EXCEPT ![fi].done = TRUE]]
               IN CASE f.trigger = "timer" ->
                         /\ AssignFull(S2)
                         /\ UNCHANGED <<drains, exited>>
                    [] f.trigger = "stale" ->
                         LET S3 == queueEntry(S2, f.owner, f.key, tlog[f.owner].at)
                             S4 == [S3 EXCEPT
                                       !.l[f.owner].resp = "202 buffered",
                                       !.l[f.owner].bucket = GetBucket(S3.b, f.key).id]
                         IN /\ AssignFull(resumeBatch(S4, f.owner))
                            /\ UNCHANGED <<drains, exited>>
                    [] f.trigger = "shutdown" ->
                         LET R == drainFrom(S2, drains[f.owner].keys, f.owner)
                         IN /\ AssignFull(R.S)
                            /\ drains' = [drains EXCEPT ![f.owner] =
                                             [keys |-> R.keys, waiting |-> R.waiting,
                                              empty |-> @.empty + R.empty]]
                            /\ exited' = ~R.waiting
    /\ UNCHANGED <<probe, now, gateVars, fwdLog, scanVars>>

\* SIGINT or SIGTERM: flushAllFileReadBuckets().finally(() => process.exit(0))
Signal ==
    /\ ~exited
    /\ Len(drains) < MaxSignals
    /\ LET d == Len(drains) + 1
           R == drainFrom(Cur, KeysOf(fileReadBuckets), d)
       IN /\ Assign(R.S)
          /\ drains' = Append(drains, [keys |-> R.keys, waiting |-> R.waiting,
                                       empty |-> R.empty])
          /\ exited' = ~R.waiting
    /\ UNCHANGED <<probe, now, gateVars, fwdLog, tlog, batches, scanVars>>

\* time passes until a timer of the batcher is due
DueTick ==
    /\ ~exited
    /\ \E tm \in timers : tm.due > now /\ now' = tm.due
    /\ UNCHANGED <<probe, exited, gateVars, sink, fwdLog, batchVars, scanVars>>

\* a timer is due and its callback has not run yet: a millisecond passes
\* (within the horizon of the model; after it the callbacks run on time)
LateTick ==
    /\ ~exited
    /\ now < EpochStart + LiveHorizon
    /\ \E tm \in timers : tm.due = now
    /\ now' = now + 1
    /\ UNCHANGED <<probe, exited, gateVars, sink, fwdLog, batchVars, scanVars>>

(* ---- stand-alone forwarder calls -------------------------------------- *)
ForwardCall ==
    /\ Len(fwdLog) < MaxForwardCalls
    /\ \A k \in 1..Len(fwdLog) : fwdLog[k].pc = "returned"
    /\ fwdLog' = Append(fwdLog, [pc |-> "awaiting", posts |-> 1,
                                 resp |-> [net |-> TRUE, status |-> 0, body |-> "empty"],
                                 result |-> [ok |-> FALSE, error |-> "none"]])
    /\ UNCHANGED <<probe, now, exited, gateVars, sink, batchVars, scanVars>>

ForwardReturn(resp) ==
    /\ Len(fwdLog) > 0
    /\ fwdLog[Len(fwdLog)].pc = "awaiting"
    /\ fwdLog' = [fwdLog EXCEPT ![Len(fwdLog)] =
                     [pc |-> "returned", posts |-> @.posts, resp |-> resp,
                      result |-> forwardToConvex(resp)]]
    /\ UNCHANGED <<probe, now, exited, gateVars, sink, batchVars, scanVars>>

(* ---- backfill scanner: transcripts ------------------------------------- *)
\* A transcript line after JSON.parse: ts is entryTimestamp(line) in ms (NoTs:
\* the line carries none), calls the toolCall/tool_use blocks of an assistant
\* message, results the tool results extractToolResults finds in it.
NoTs == 0
CallBlock(id, tool, params) == [id |-> id, tool |-> tool, params |-> params]
ResultBlock(id, toolName) == [id |-> id, toolName |-> toolName]
JsonLine(ts, calls, results) ==
    [kind |-> "json", ts |-> ts, calls |-> calls, results |-> results]
\* a line JSON.parse rejects
GarbageLine == [kind |-> "garbage", ts |-> NoTs, calls |-> << >>, results |-> << >>]
\* a line that is empty or white space
BlankLine == [kind |-> "blank", ts |-> NoTs, calls |-> << >>, results |-> << >>]
CallLine(ts, id, tool, params) == JsonLine(ts, <<CallBlock(id, tool, params)>>, << >>)
ResultLine(ts, id, toolName) == JsonLine(ts, << >>, <<ResultBlock(id, toolName)>>)

\* tail: the lines the agent has yet to append to the file
GrowingFile(path, lines, tail) ==
    [path |-> path, readable |-> TRUE, lines |-> lines, tail |-> tail]
TranscriptFile(path, readable, lines) ==
    [path |-> path, readable |-> readable, lines |-> lines, tail |-> << >>]

HasId(block) == block.id # Missing
\* extractToolResults: a result block without a call id is left out
extractToolResults(line) == SelectSeq(line.results, HasId)

\* 24 * 60 * 60 * 1000
DAY_MS == 86400000
At(day, ms) == day * DAY_MS + ms

\* three call/result pairs on one day, every line with its own timestamp
PairsFile ==
    TranscriptFile("a.jsonl", TRUE,
        << CallLine(At(1, 10), "t1", "read_file", "x.ts"),
           ResultLine(At(1, 11), "t1", Missing),
           CallLine(At(1, 20), "t2", "exec_command", "ls"),
           ResultLine(At(1, 21), "t2", "exec_command"),
           CallLine(At(1, 30), "t3", "read_file", "y.ts"),
           ResultLine(At(1, 31), "t3", Missing) >>)
\* a malformed line, a blank line, a result without a call, and a pair whose
\* result line has no timestamp
RoughFile ==
    TranscriptFile("b.jsonl", TRUE,
        << GarbageLine,
           ResultLine(At(2, 5), "t4", Missing),
           BlankLine,
           CallLine(At(2, 10), "t5", "Read_File", "x.ts"),
           ResultLine(NoTs, "t5", Missing) >>)
\* two calls in one assistant message, both results in one line: the same tool
\* with the same params twice, under different call ids
TwinFile ==
    TranscriptFile("c.jsonl", TRUE,
        << JsonLine(At(1, 40), <<CallBlock("t6", "exec_command", "ls"),
                                 CallBlock("t7", "exec_command", "ls")>>, << >>),
           JsonLine(At(1, 41), << >>, <<ResultBlock("t6", Missing),
                                        ResultBlock("t7", Missing)>>),
           GarbageLine >>)
LockedFile == TranscriptFile("d.jsonl", FALSE, <<GarbageLine>>)
\* two different calls in one assistant message, both results in one line
MixedFile ==
    TranscriptFile("e.jsonl", TRUE,
        << JsonLine(At(1, 50), <<CallBlock("tA", "read_file", "x.ts"),
                                 CallBlock("tB", "exec_command", "ls")>>, << >>),
           JsonLine(At(1, 51), << >>, <<ResultBlock("tA", Missing),
                                        ResultBlock("tB", Missing)>>) >>)
\* a pair, a second result for the same call id, a result block without a call
\* id, and a result without a call that names its tool
OrphanFile ==
    TranscriptFile("f.jsonl", TRUE,
        << CallLine(At(1, 60), "tC", "read_file", "x.ts"),
           ResultLine(At(1, 61), "tC", Missing),
           ResultLine(At(1, 62), "tC", Missing),
           JsonLine(At(1, 63), << >>, <<ResultBlock(Missing, "exec_command"),
                                        ResultBlock("tD", "exec_command")>>) >>)
\* a session in progress: the call is written, its result and more are to come
GrowFile ==
    GrowingFile("g.jsonl",
        << CallLine(At(1, 70), "tF", "read_file", "x.ts") >>,
        << ResultLine(At(1, 71), "tF", Missing), GarbageLine >>)

\* the file sets of the model, each in mtime order
Transcripts ==
    { <<PairsFile>>, <<RoughFile, PairsFile>>, <<TwinFile, RoughFile>>,
      <<PairsFile, LockedFile>> }

\* --since cut-offs (0: the flag is absent)
Cutoffs == {0, At(1, 25)}
\* the command lines of the model
CliOptions == [valid : {TRUE}, dryRun : BOOLEAN, sinceMs : Cutoffs]
                  \cup {[valid |-> FALSE, dryRun |-> FALSE, sinceMs |-> 0]}

(* ---- backfill scanner: activities and dedup keys ----------------------- *)
\* String.prototype.toLowerCase over the tool names of the model
Lower(text) == IF text = "Read_File" THEN "read_file" ELSE text

EmptyParams == "{}"
\* the title enrichRawToolCall generates: for an unclassified tool it names the
\* tool ("Ran tool: ..."), for the kinds of the model it is made from the
\* params alone ("Read file: ...", "Ran command: ...")
titleOf(tool, params) ==
    LET kind == classifyTool(Lower(tool))
    IN [kind |-> kind, text |-> IF kind = "unknown" THEN tool ELSE params]

\* buildActivityDedupKey(timestamp, tool, title)
buildActivityDedupKey(timestamp, tool, title) ==
    [ts |-> timestamp, tool |-> Lower(tool), title |-> title]

\* the RawToolCall of a result and the activity enriched from it (processFile):
\* tool and params come from the pending call if there is one
buildActivity(result, pending, timestamp) ==
    LET known == result.id \in DOMAIN pending
        tool == IF known THEN pending[result.id].tool
                ELSE IF result.toolName # Missing THEN result.toolName
                ELSE "unknown"
        params == IF known THEN pending[result.id].params ELSE EmptyParams
    IN [toolCallId |-> result.id, tool |-> tool, params |-> params,
        title |-> titleOf(tool, params), timestamp |-> timestamp]

keyFromActivity(activity) ==
    buildActivityDedupKey(activity.timestamp, activity.tool, activity.title)

\* dayStart(timestamp): midnight UTC of its day
dayStart(timestamp) == timestamp - (timestamp % DAY_MS)

\* the keys loadDay builds from the rows the store returns for the day
dayKeysOf(rows, start) ==
    {keyFromActivity(row) : row \in {x \in rows : dayStart(x.timestamp) = start}}

\* outcomes of the remote queries of one loadDay: the range query answers; it
\* throws and the list query answers; both throw
QueryOutcomes == {"range", "fallback", "down"}
\* outcomes of one POST to the sink
PostOutcomes == {"ok", "fail"}

(* ---- backfill scanner: one run ------------------------------------------ *)
\* the state file as a document: absent, or {version, files}
AbsentFile == [version |-> 0, files |-> << >>]
\* loadState: the default state unless the document is of version 1; an offset
\* that is not a number >= 0 reads as 0
loadState(doc) ==
    IF doc.version # 1 THEN << >>
    ELSE [path \in DOMAIN doc.files |-> IF doc.files[path] >= 0 THEN doc.files[path] ELSE 0]
\* saveState: the document written for a state
saveState(state) == [version |-> 1, files |-> state]

ZeroStats ==
    [sent |-> 0, dryRun |-> 0, skippedSince |-> 0, skippedDuplicateRun |-> 0,
     skippedDuplicateConvex |-> 0, parseErrors |-> 0, postErrors |-> 0]

\* the locals of main and of processFile. state: the BackfillState in memory
\* (path -> lineOffset); loaded: the state as loadState returned it; index, res:
\* the line (0-based) and the result within it that come next; opened:
\* filesProcessed
RunRec(id, opts) ==
    [id |-> id, pc |-> "file", opts |-> opts, loaded |-> loadState(stateFile),
     state |-> loadState(stateFile),
     fileIdx |-> 1, index |-> 0, res |-> 1, nextOffset |-> 0,
     pending |-> << >>, runKeys |-> {}, dayCache |-> << >>,
     warned |-> FALSE, warnings |-> 0, halted |-> FALSE, stats |-> ZeroStats,
     opened |-> 0, fatal |-> FALSE, saved |-> FALSE, exitCode |-> 0]

IdleRun ==
    [RunRec(0, [valid |-> TRUE, dryRun |-> FALSE, sinceMs |-> 0]) EXCEPT
        !.pc = "idle", !.loaded = << >>, !.state = << >>]

NoActivity ==
    [toolCallId |-> Missing, tool |-> Missing, params |-> EmptyParams,
     title |-> titleOf(Missing, EmptyParams), timestamp |-> NoTs]

\* one entry of the trail. kind: open, close, parseError, or the fate of a
\* result (since, dupRun, dupConvex, dryRun, sent, failed, fatal); query: the
\* remote queries the step made ("none" if the day was cached or not needed);
\* inRun, inDay: the key was in the in-run set, in the keys of its day
Event(R, kind, activity, query, inRun, inDay) ==
    [run |-> R.id, kind |-> kind, file |-> R.fileIdx, line |-> R.index,
     res |-> R.res, activity |-> activity, query |-> query,
     inRun |-> inRun, inDay |-> inDay]
\* an entry that is not about a result
Mark(R, kind) == Event(R, kind, NoActivity, "none", FALSE, FALSE)

isDryRun_Never(opts) == FALSE
\* options.dryRun
isDryRun(opts) == opts.dryRun

Min(a, b) == IF a <= b THEN a ELSE b

ExitCode_Zero(postErrors) == 0
\* if (totals.postErrors > 0) process.exitCode = 1
ExitCode(postErrors) == IF postErrors > 0 THEN 1 ELSE 0

\* the process ends; R holds its final locals
EndRun(R, after) ==
    /\ stateFile' = after
    /\ run' = [R EXCEPT !.pc = "done"]
    /\ hist' = Append(hist, [id |-> R.id, opts |-> R.opts, exitCode |-> R.exitCode,
                             fatal |-> R.fatal, saved |-> R.saved, stats |-> R.stats,
                             warnings |-> R.warnings, opened |-> R.opened,
                             before |-> R.loaded, after |-> after])

\* main().catch: an exception escaped main
Fatal(R) == EndRun([R EXCEPT !.fatal = TRUE, !.exitCode = 1], stateFile)

\* the process starts, later than the one before: parseArgs, discovery,
\* loadState
RunStart(opts) ==
    /\ run.pc \in {"idle", "done"}
    /\ Len(hist) < MaxRuns
    /\ now' = now + 1
    /\ LET R == RunRec(Len(hist) + 1, opts)
       IN IF ~opts.valid
          THEN Fatal(R)
          ELSE run' = R /\ UNCHANGED <<hist, stateFile>>
    /\ UNCHANGED <<probe, exited, gateVars, sink, fwdLog, batchVars, files, store, trail>>

StartOffset_Zero(fileState, length) == 0
\* Math.min(fileState?.lineOffset ?? 0, lines.length)
StartOffset(fileState, length) == Min(fileState, length)

\* the head of the loop over files, and processFile up to its loop over lines
OpenFile ==
    /\ run.pc = "file"
    /\ IF run.halted \/ run.fileIdx > Len(files)
       THEN /\ run' = [run EXCEPT !.pc = "save"]
            /\ UNCHANGED <<trail, hist, stateFile>>
       ELSE LET f == files[run.fileIdx]
                start == StartOffset(MapGetOr(run.state, f.path, 0), Len(f.lines))
                R == [run EXCEPT !.pc = "line", !.index = start, !.nextOffset = start,
                                 !.res = 1, !.pending = << >>]
            IN IF ~f.readable
               THEN /\ Fatal(run)
                    /\ trail' = Append(trail, Mark(run, "fatal"))
               ELSE /\ run' = R
                    /\ trail' = Append(trail, Mark(R, "open"))
                    /\ UNCHANGED <<hist, stateFile>>
    /\ UNCHANGED <<probe, now, exited, gateVars, sink, fwdLog, batchVars, files, store>>

\* pendingCalls.set for every call of the line
Register(pending, calls) ==
    [id \in (DOMAIN pending) \cup {calls[k].id : k \in 1..Len(calls)} |->
        IF \E k \in 1..Len(calls) : calls[k].id = id
        THEN LET k == Max({j \in 1..Len(calls) : calls[j].id = id})
             IN [tool |-> calls[k].tool, params |-> calls[k].params]
        ELSE pending[id]]

\* the line is done: nextOffset = index + 1, and on to the next line
NextLine(R) ==
    [R EXCEPT !.nextOffset = R.index + 1, !.index = R.index + 1, !.res = 1, !.pc = "line"]

\* processFile returned and main recorded the file's new state
Closed_Forget(R) == [R EXCEPT !.opened = @ + 1, !.fileIdx = @ + 1, !.pc = "file"]
Closed(R) ==
    [R EXCEPT !.state = MapSet(@, files[R.fileIdx].path, R.nextOffset),
              !.opened = @ + 1, !.fileIdx = @ + 1, !.pc = "file"]

AfterParseError_Halt(R) ==
    Closed([R EXCEPT !.stats.parseErrors = @ + 1, !.halted = TRUE])
\* the catch around JSON.parse: parseErrors += 1; nextOffset = index + 1; continue
AfterParseError(R) == NextLine([R EXCEPT !.stats.parseErrors = @ + 1])

\* one turn of the loop over lines, up to the results of the line
ScanLine ==
    /\ run.pc = "line"
    /\ LET f == files[run.fileIdx]
       IN IF run.index >= Len(f.lines)
          THEN /\ run' = Closed(run)
               /\ trail' = Append(trail, Mark(run, "close"))
          ELSE LET line == f.lines[run.index + 1]
               IN CASE line.kind = "blank" ->
                         run' = NextLine(run) /\ UNCHANGED trail
                    [] line.kind = "garbage" ->
                         /\ run' = AfterParseError(run)
                         /\ trail' = Append(trail, Mark(run, "parseError"))
                    [] line.kind = "json" ->
                         LET R == [run EXCEPT !.pending = Register(@, line.calls)]
                         IN /\ run' = IF extractToolResults(line) = << >> THEN NextLine(R)
                                      ELSE [R EXCEPT !.pc = "result", !.res = 1]
                            /\ UNCHANGED trail
    /\ UNCHANGED <<probe, now, exited, gateVars, sink, fwdLog, batchVars, files, store,
                   stateFile, hist>>

\* if (!this.rangeWarningShown): the fallback warning is logged
Warns(warned) == ~warned

Consume_Keep(pending, id) == pending
\* pendingCalls.delete(result.toolCallId)
Consume(pending, id) == [x \in (DOMAIN pending) \ {id} |-> pending[x]]

olderThanSince_Never(opts, timestamp) == FALSE
\* options.sinceMs && (enriched.timestamp ?? 0) < options.sinceMs
olderThanSince(opts, timestamp) == opts.sinceMs # 0 /\ timestamp < opts.sinceMs

remember_Nothing(dayKeys, key) == dayKeys
\* dedupe.remember: dayKeys.add(key)
remember(dayKeys, key) == dayKeys \cup {key}

Halts_Never(posted) == FALSE
\* the catch around postActivity: halted = true; break
Halts(posted) == ~posted

\* one turn of the loop over the results of a line: the activity is built,
\* filtered by --since, looked up in the two dedup layers, and posted. query and
\* post are what the store and the sink answer if they are asked.
ScanResult(query, post) ==
    /\ run.pc = "result"
    /\ LET line == files[run.fileIdx].lines[run.index + 1]
           results == extractToolResults(line)
           result == results[run.res]
           timestamp == IF line.ts = NoTs THEN now ELSE line.ts
           activity == buildActivity(result, run.pending, timestamp)
           key == keyFromActivity(activity)
           start == dayStart(activity.timestamp)
           cached == start \in DOMAIN run.dayCache
           old == olderThanSince(run.opts, activity.timestamp)
           asks == ~old /\ key \notin run.runKeys /\ ~cached
           dayKeys == IF cached THEN run.dayCache[start] ELSE dayKeysOf(store, start)
           posts == ~old /\ key \notin run.runKeys /\ key \notin dayKeys
                        /\ ~isDryRun(run.opts) /\ ~(asks /\ query = "down")
           \* pendingCalls.delete(result.toolCallId)
           R0 == [run EXCEPT !.pending = Consume(@, result.id)]
           \* dedupe.has: loadDay fills the cache of the day
           R1 == [R0 EXCEPT
                     !.dayCache = MapSet(@, start, dayKeys),
                     !.warned = @ \/ (asks /\ query = "fallback"),
                     !.warnings = IF asks /\ query = "fallback" /\ Warns(run.warned)
                                  THEN @ + 1 ELSE @]
           \* runKeys.add(key), and dedupe.remember where the code calls it
           Marked(R, both) ==
               [R EXCEPT !.runKeys = @ \cup {key},
                         !.dayCache = IF both THEN MapSet(@, start, remember(dayKeys, key))
                                      ELSE @]
           \* continue: the next result, or the end of the line
           Continue(R) ==
               IF run.res < Len(results) THEN [R EXCEPT !.res = @ + 1]
               ELSE NextLine(R)
           Log(kind) == Append(trail, Event(run, kind, activity,
                                            IF asks THEN query ELSE "none",
                                            key \in run.runKeys, key \in dayKeys))
       IN /\ (query # "range") => asks
          /\ (post # "ok") => posts
          /\ IF old
             THEN /\ run' = Continue([R0 EXCEPT !.stats.skippedSince = @ + 1])
                  /\ trail' = Log("since")
                  /\ UNCHANGED <<store, hist, stateFile>>
             ELSE IF key \in run.runKeys
             THEN /\ run' = Continue([R0 EXCEPT !.stats.skippedDuplicateRun = @ + 1])
                  /\ trail' = Log("dupRun")
                  /\ UNCHANGED <<store, hist, stateFile>>
             ELSE IF asks /\ query = "down"
             THEN /\ Fatal(R0)
                  /\ trail' = Log("fatal")
                  /\ UNCHANGED store
             ELSE IF key \in dayKeys
             THEN /\ run' = Continue(Marked([R1 EXCEPT
                                 !.stats.skippedDuplicateConvex = @ + 1], FALSE))
                  /\ trail' = Log("dupConvex")
                  /\ UNCHANGED <<store, hist, stateFile>>
             ELSE IF isDryRun(run.opts)
             THEN /\ run' = Continue(Marked([R1 EXCEPT !.stats.dryRun = @ + 1], TRUE))
                  /\ trail' = Log("dryRun")
                  /\ UNCHANGED <<store, hist, stateFile>>
             ELSE IF Halts(post = "ok")
             THEN /\ run' = Closed([R1 EXCEPT !.stats.postErrors = @ + 1,
                                              !.halted = TRUE])
                  /\ trail' = Log("failed")
                  /\ UNCHANGED <<store, hist, stateFile>>
             ELSE /\ run' = Continue(Marked([R1 EXCEPT !.stats.sent = @ + 1], TRUE))
                  /\ store' = IF post = "ok" THEN store \cup {activity} ELSE store
                  /\ trail' = Log(IF post = "ok" THEN "sent" ELSE "failed")
                  /\ UNCHANGED <<hist, stateFile>>
    /\ UNCHANGED <<probe, now, exited, gateVars, sink, fwdLog, batchVars, files>>

\* the end of main: the state is saved unless --dry-run, and the exit code set
Save ==
    /\ run.pc = "save"
    /\ LET R == [run EXCEPT !.saved = ~isDryRun(run.opts),
                            !.exitCode = ExitCode(run.stats.postErrors)]
       IN EndRun(R, IF isDryRun(run.opts) THEN stateFile ELSE saveState(run.state))
    /\ UNCHANGED <<probe, now, exited, gateVars, sink, fwdLog, batchVars, files, store, trail>>

\* a state file that fs.writeFile has opened for writing (truncated) and not
\* yet written in full: empty or a prefix of the document; JSON.parse rejects it
TornFile == [version |-> 2, files |-> << >>]

\* saveState, first half: fs.writeFile opens the state file with flag "w"
SaveOpen ==
    /\ run.pc = "save"
    /\ IF isDryRun(run.opts)
       THEN EndRun([run EXCEPT !.exitCode = ExitCode(run.stats.postErrors)], stateFile)
       ELSE /\ stateFile' = TornFile
            /\ run' = [run EXCEPT !.pc = "saving"]
            /\ UNCHANGED hist
    /\ UNCHANGED <<probe, now, exited, gateVars, sink, fwdLog, batchVars, files, store, trail>>

\* saveState, second half: the content is written and the file closed; then
\* the end of main
SaveWrite ==
    /\ run.pc = "saving"
    /\ EndRun([run EXCEPT !.saved = TRUE, !.exitCode = ExitCode(run.stats.postErrors)],
              saveState(run.state))
    /\ UNCHANGED <<probe, now, exited, gateVars, sink, fwdLog, batchVars, files, store, trail>>

\* SIGKILL, a crash or a power cut: the process is gone, the files stay as
\* they are
Kill ==
    /\ run.pc \notin {"idle", "done"}
    /\ EndRun([run EXCEPT !.exitCode = 137], stateFile)
    /\ trail' = Append(trail, Mark(run, "killed"))
    /\ UNCHANGED <<probe, now, exited, gateVars, sink, fwdLog, batchVars, files, store>>

\* between two runs the agent appends the next line to a transcript
AppendLines ==
    /\ run.pc \in {"idle", "done"}
    /\ \E f \in 1..Len(files) :
           /\ files[f].tail # << >>
           /\ files' = [files EXCEPT ![f].lines = Append(@, Head(files[f].tail)),
                                     ![f].tail = Tail(@)]
    /\ UNCHANGED <<probe, now, exited, gateVars, sink, fwdLog, batchVars, stateFile, store,
                   run, trail, hist>>

\* between two runs the state file is deleted
LoseState ==
    /\ run.pc = "done"
    /\ stateFile # AbsentFile
    /\ stateFile' = AbsentFile
    /\ UNCHANGED <<probe, now, exited, gateVars, sink, fwdLog, batchVars, files, store,
                   run, trail, hist>>

\* the clock of the scanner's host at the first run: after every transcript
ScanEpoch == At(3, 0)

PostFailures == Cardinality({e \in 1..Len(trail) : trail[e].kind = "failed"})
QueryFailures ==
    Cardinality({e \in 1..Len(trail) : trail[e].query \in {"fallback", "down"}})

(* ---- specifications --------------------------------------------------- *)
\* no backfill process, no transcripts
ScanIdle ==
    /\ files = << >>
    /\ stateFile = AbsentFile
    /\ store = {}
    /\ run = IdleRun
    /\ trail = << >>
    /\ hist = << >>

\* no pure function under test
NoProbe == [fn |-> "none"]

ProbeIdle == probe = NoProbe

RelayIdle ==
    /\ exited = FALSE
    /\ lastEventTime = << >>
    /\ recentTitles = << >>
    /\ evlog = << >>
    /\ sink = << >>
    /\ fwdLog = << >>
    /\ fileReadBuckets = << >>
    /\ timers = {}
    /\ tlog = << >>
    /\ flushes = << >>
    /\ drains = << >>
    /\ batches = << >>

Init ==
    /\ now = EpochStart
    /\ ProbeIdle
    /\ RelayIdle
    /\ ScanIdle

EventsRequest == \E b \in EventBodies : EventsArrive(b[1], b[2])
EventsResponse == \E i \in 1..Len(evlog), r \in RelayResponses : EventsRespond(i, r)
RateTick == \E d \in RateDeltas : Tick(d, RateHorizon)
DedupTick == \E d \in DedupDeltas : Tick(d, DedupHorizon)

\* /events with clock advances around the rate-limit window
NextRate == EventsRequest \/ EventsResponse \/ RateTick
SpecRate == Init /\ [][NextRate]_vars

\* /events with clock advances around the duplicate window
NextDedup == EventsRequest \/ EventsResponse \/ DedupTick
SpecDedup == Init /\ [][NextDedup]_vars

Direct == {r \in 1..Len(tlog) : tlog[r].kind \notin {"file_read", "invalid"}}
UsedKeys == {tlog[r].key : r \in 1..Len(tlog)} \ {NoKey}
\* the keys a new file read may name: those already used and the next unused one
OpenKeys == {BucketKeys[i] : i \in 1..Len(BucketKeys)}
                \ {BucketKeys[i] : i \in (Cardinality(UsedKeys) + 2)..Len(BucketKeys)}
FileReadRequest == \E key \in OpenKeys : ToolsArrive(ReadBody, key, MaxTools)
DirectRequest == Cardinality(Direct) < MaxDirect /\ ToolsArrive(ExecBody, NoKey, MaxTools)
BurstRequest == ToolsArrive(ReadBody, BucketKeys[1], MaxBurst)
ToolsResponse == \E r \in 1..Len(tlog), resp \in RelayResponses : ToolsRespond(r, resp)
TimerExpiry == \E tm \in timers : TimerFire(tm)
FlushResponse == \E fi \in 1..Len(flushes), resp \in RelayResponses : FlushRespond(fi, resp)
BatchTick == \E d \in BatchDeltas : Tick(d, BatchHorizon)

\* /tools, the batcher's timers and the shutdown drain
NextBatcher == FileReadRequest \/ DirectRequest \/ ToolsResponse \/ TimerExpiry \/ FlushResponse
                   \/ Signal \/ BatchTick
SpecBatcher == Init /\ [][NextBatcher]_vars

\* a burst of file reads of one session and directory, with a sink that answers
\* every POST with success
BurstFlushResponse == \E fi \in 1..Len(flushes) : FlushRespond(fi, SinkOk)
NextBurst == BurstRequest \/ TimerExpiry \/ BurstFlushResponse \/ Signal \/ BatchTick
SpecBurst == Init /\ [][NextBurst]_vars

\* POST /tools with every shape of body, one session and directory
ToolBodies ==
    { ReadBody, ExecBody,
      Payload("object", Str("mystery"), ObjectValue),
      Payload("array", Undefined, Undefined),
      Payload("null", Undefined, Undefined),
      Payload("object", Undefined, ObjectValue),
      Payload("object", Str(""), ObjectValue),
      Payload("object", Str("  "), ObjectValue),
      Payload("object", Str("exec_command"), Undefined),
      Payload("object", Str("read_file"), ArrayValue),
      Payload("object", Str("read_file"), NullValue) }
Invalid == {r \in 1..Len(tlog) : tlog[r].kind = "invalid"}
ToolsRequest ==
    \E body \in ToolBodies :
        /\ parseToolCall(body).ok \/ Cardinality(Invalid) < MaxInvalid
        /\ ToolsArrive(body, KeyOfBody(body), MaxToolCalls)
NextTools == ToolsRequest \/ ToolsResponse \/ TimerExpiry \/ FlushResponse \/ BatchTick
SpecTools == Init /\ [][NextTools]_vars

\* POST /batch: payloads with valid, invalid and failing items in every position
BlankToolBody == Payload("object", Str("  "), ObjectValue)
BatchPayloads ==
    { ObjectPayload,
      ArrayPayload(<< >>),
      ArrayPayload(<<ReadBody>>),
      ArrayPayload(<<ExecBody, ArrayValue, ReadBody>>),
      ArrayPayload(<<BlankToolBody, ReadBody, ExecBody>>),
      ArrayPayload(<<ReadBody, ExecBody, ReadBody>>) }
BatchRequest == \E payload \in BatchPayloads : BatchArrive(payload)
NextBatch == BatchRequest \/ ToolsResponse \/ TimerExpiry \/ FlushResponse \/ BatchTick
SpecBatch == Init /\ [][NextBatch]_vars

\* backfill runs, one after the other, over one of the file sets
InitScan ==
    /\ now = ScanEpoch
    /\ ProbeIdle
    /\ RelayIdle
    /\ files \in Transcripts
    /\ stateFile = AbsentFile
    /\ store = {}
    /\ run = IdleRun
    /\ trail = << >>
    /\ hist = << >>
ScanStart == \E opts \in CliOptions : RunStart(opts)
ScanResults ==
    \E query \in QueryOutcomes, post \in PostOutcomes :
        /\ query # "range" => QueryFailures < MaxQueryFailures
        /\ post = "fail" => PostFailures < MaxPostFailures
        /\ ScanResult(query, post)
NextScan == ScanStart \/ OpenFile \/ ScanLine \/ ScanResults \/ Save
SpecScan == InitScan /\ [][NextScan]_vars

\* backfill runs that can be killed, the save in its two halves; the store
\* answers every range query
InitCrash ==
    /\ now = ScanEpoch
    /\ ProbeIdle
    /\ RelayIdle
    /\ files \in {<<PairsFile>>, <<TwinFile, RoughFile>>}
    /\ stateFile = AbsentFile
    /\ store = {}
    /\ run = IdleRun
    /\ trail = << >>
    /\ hist = << >>
CrashStart == \E opts \in {o \in CliOptions : o.valid /\ o.sinceMs = 0} : RunStart(opts)
CrashResults ==
    \E post \in PostOutcomes :
        /\ post = "fail" => PostFailures < MaxPostFailures
        /\ ScanResult("range", post)
\* runs without options over files that grow between the runs, with a state
\* file that can be lost between the runs
ResumeTranscripts == {<<MixedFile>>, <<OrphanFile>>, <<RoughFile, GrowFile>>}
InitResume ==
    /\ now = ScanEpoch
    /\ ProbeIdle
    /\ RelayIdle
    /\ files \in ResumeTranscripts
    /\ stateFile = AbsentFile
    /\ store = {}
    /\ run = IdleRun
    /\ trail = << >>
    /\ hist = << >>
ResumeStart == RunStart([valid |-> TRUE, dryRun |-> FALSE, sinceMs |-> 0])
NextResume == ResumeStart \/ OpenFile \/ ScanLine \/ CrashResults \/ Save
                  \/ AppendLines \/ LoseState
SpecResume == InitResume /\ [][NextResume]_vars

NextCrash == CrashStart \/ OpenFile \/ ScanLine \/ CrashResults \/ SaveOpen \/ SaveWrite \/ Kill
SpecCrash == InitCrash /\ [][NextCrash]_vars

\* the classifier alone, over names made of the words its rules look for, of
\* separators and of a word no rule knows, in lower or upper case
Words == {"exec", "bash", "shell", "message", "browser", "read", "file", "_", "x"}
Pieces == {Piece(w, u) : w \in Words, u \in BOOLEAN}
ToolNames == UNION {[1..n -> Pieces] : n \in 1..MaxNameLen}
InitClassify ==
    /\ now = EpochStart
    /\ RelayIdle
    /\ ScanIdle
    /\ probe \in {[fn |-> "classifyTool", name |-> n, done |-> FALSE,
                    kind |-> "none", type |-> "none"] : n \in ToolNames}
NextClassify == Classify
SpecClassify == InitClassify /\ [][NextClassify]_vars

\* inferStatusFromResult alone. The result objects of the model: every
\* combination of the fields the function reads, over values on both sides of
\* each of its tests, with nothing, a non-object or an object under details
StatusValues == {Undefined, Str("pending"), Str("error"), Str("done"), Str(" error ")}
FlatResults ==
    [type : {"object"},
     status : StatusValues,
     error : {Undefined, Str(""), Str("boom")},
     errorMessage : {Undefined, Str("boom")},
     isError : {Undefined, Bool("true"), Str("yes")},
     ok : {Undefined, Bool("false"), Num("0")},
     success : {Undefined, Bool("false")},
     exitCode : {Undefined, Num("0"), Num("1"), Str("1")},
     code : {Undefined, Num("0"), Num("1")}]
\* an object with none of the fields
EmptyResult ==
    [type |-> "object", status |-> Undefined, error |-> Undefined,
     errorMessage |-> Undefined, isError |-> Undefined, ok |-> Undefined,
     success |-> Undefined, exitCode |-> Undefined, code |-> Undefined]
\* the objects that stand under details: one with an explicit status, one
\* with an error mark, one with nothing
Verdicts ==
    { EmptyResult,
      [EmptyResult EXCEPT !.status = Str("pending")],
      [EmptyResult EXCEPT !.errorMessage = Str("boom")] }
RECURSIVE Nested(_)
\* the values of details, objects nested up to the depth
Nested(depth) ==
    IF depth = 0 THEN {Undefined, ArrayValue}
    ELSE {Undefined, ArrayValue}
             \cup {With(v, d) : v \in Verdicts, d \in Nested(depth - 1)}
ResultObjects(depth) == {With(r, d) : r \in FlatResults, d \in Nested(depth)}
InitStatus ==
    /\ now = EpochStart
    /\ RelayIdle
    /\ ScanIdle
    /\ probe \in {[fn |-> "inferStatus", result |-> r, done |-> FALSE, status |-> "none"] :
                      r \in ResultObjects(MaxDepth) \cup {Undefined}}
NextStatus == InferStatus
SpecStatus == InitStatus /\ [][NextStatus]_vars

ForwardResponse == \E r \in Responses : ForwardReturn(r)
NextForward == ForwardCall \/ ForwardResponse
SpecForward == Init /\ [][NextForward]_vars

\* flushFileReadBucket alone, over buckets of one to MaxEntries entries of
\* every status, of two sessions and two directories
ActivityStatuses == {"success", "error", "pending"}
BucketsOf(n) ==
    [sessionKey : {"s1", "global"}, directory : {"src", "workspace"},
     entries : UNION {[1..k -> ActivityStatuses] : k \in 1..n}]
InitSummary ==
    /\ now = EpochStart
    /\ RelayIdle
    /\ ScanIdle
    /\ probe \in {[fn |-> "flushFileReadBucket", bucket |-> b, done |-> FALSE,
                    posted |-> << >>] : b \in BucketsOf(MaxEntries)}
NextSummary == FlushBucket
SpecSummary == InitSummary /\ [][NextSummary]_vars

\* the batcher of a relay that keeps running: file reads of one session and
\* directory, a sink that answers every POST, timers that fire once they are
\* due or a millisecond late, and a clock that reaches every due time; the
\* requests arrive within LiveHorizon ms
LiveRequest ==
    /\ now <= EpochStart + LiveHorizon
    /\ ToolsArrive(ReadBody, BucketKeys[1], MaxLive)
NextLive == LiveRequest \/ TimerExpiry \/ FlushResponse \/ DueTick \/ LateTick
SpecLive ==
    /\ Init /\ [][NextLive]_vars
    /\ WF_vars(TimerExpiry) /\ WF_vars(FlushResponse) /\ WF_vars(DueTick)

\* /events with the clock moving from one edge of a rate window to the next
NextGate == EventsRequest \/ EventsResponse \/ EdgeTick
SpecGate == Init /\ [][NextGate]_vars

(* ---- properties of the /events gate ----------------------------------- *)
WellFormed(e) == e.event # Missing /\ e.title # Missing
\* the rate limiter let the request through (it was answered neither 400 nor 429)
Allowed(e) == WellFormed(e) /\ e.resp \notin {"400", "429"}
\* the duplicate gate recorded the title (the request went on to the sink)
Recorded(e) == Allowed(e) /\ e.resp # "dedup"
AllowedBefore(i) == {j \in 1..(i - 1) : Allowed(evlog[j]) /\ evlog[j].event = evlog[i].event}
RecordedBefore(i) == {j \in 1..(i - 1) : Recorded(evlog[j]) /\ evlog[j].title = evlog[i].title}
PostsOfEvent(i) == {p \in 1..Len(sink) : sink[p].src = "events" /\ sink[p].ref = i}

\* C1: a well-formed /events request is answered 429, and posts nothing, exactly
\* when the last allowed request of its event type (whatever its title) came less
\* than RATE_LIMIT_MS earlier; a type never allowed before passes.
C1_RateLimit ==
    \A i \in 1..Len(evlog) :
        WellFormed(evlog[i]) =>
            /\ (evlog[i].resp = "429") <=>
                  (/\ AllowedBefore(i) # {}
                   /\ evlog[i].at - evlog[Max(AllowedBefore(i))].at < RATE_LIMIT_MS)
            /\ (evlog[i].resp = "429") => (evlog[i].post = 0 /\ PostsOfEvent(i) = {})

\* a request let through exactly 1000 ms after the last allowed one of its type,
\* then a 429 for a title never seen, 999 ms after that
C1_Witness ==
    \E i, j, k \in 1..Len(evlog) :
        /\ i < j /\ j < k
        /\ Allowed(evlog[i])
        /\ evlog[j].event = evlog[i].event /\ evlog[k].event = evlog[i].event
        /\ Allowed(evlog[j]) /\ evlog[j].at - evlog[i].at = RATE_LIMIT_MS
        /\ evlog[k].title \notin {evlog[i].title, evlog[j].title} /\ WellFormed(evlog[k])
        /\ evlog[k].resp = "429" /\ evlog[k].at - evlog[j].at = RATE_LIMIT_MS - 1

\* C2: among the requests that pass the rate limiter, one whose title was last
\* recorded at most DEDUP_WINDOW_MS earlier is answered deduplicated and posts
\* nothing; one whose title was last recorded longer ago (or never) is forwarded
\* and recorded again with its own arrival time.
C2_DedupWindow ==
    /\ \A i \in 1..Len(evlog) :
          Allowed(evlog[i]) =>
            IF /\ RecordedBefore(i) # {}
               /\ evlog[i].at - evlog[Max(RecordedBefore(i))].at <= DEDUP_WINDOW_MS
            THEN evlog[i].resp = "dedup" /\ evlog[i].post = 0 /\ PostsOfEvent(i) = {}
            ELSE /\ Recorded(evlog[i])
                 /\ PostsOfEvent(i) = {evlog[i].post}
    /\ \A t \in DOMAIN recentTitles :
          LET rec == {j \in 1..Len(evlog) : Recorded(evlog[j]) /\ evlog[j].title = t}
          IN rec # {} /\ recentTitles[t] = evlog[Max(rec)].at

\* a title accepted and recorded again 30001 ms after its recording, then
\* answered as a duplicate exactly 30000 ms after the new recording
C2_Witness ==
    \E i, j, k \in 1..Len(evlog) :
        /\ i < j /\ j < k
        /\ Recorded(evlog[i])
        /\ evlog[j].title = evlog[i].title /\ evlog[k].title = evlog[i].title
        /\ Recorded(evlog[j]) /\ evlog[j].at - evlog[i].at = DEDUP_WINDOW_MS + 1
        /\ evlog[j].post # 0 /\ sink[evlog[j].post].ref = j
        /\ evlog[k].resp = "dedup" /\ evlog[k].at - evlog[j].at = DEDUP_WINDOW_MS
        /\ recentTitles[evlog[k].title] = evlog[j].at

\* C11: a POST /events request that lacks the event or the title field is
\* answered 400 (and never anything else later), no post exists for it, and the
\* step that receives it changes neither lastEventTime nor recentTitles nor the
\* sink.
C11_MalformedRejected ==
    /\ [](\A i \in 1..Len(evlog) :
              ~WellFormed(evlog[i]) =>
                  evlog[i].resp = "400" /\ evlog[i].post = 0 /\ PostsOfEvent(i) = {})
    /\ [][(Len(evlog') = Len(evlog) + 1 /\ ~WellFormed(evlog'[Len(evlog')])) =>
              (/\ lastEventTime' = lastEventTime
               /\ recentTitles' = recentTitles
               /\ sink' = sink)]_vars

\* a request without title answered 400 exactly RATE_LIMIT_MS after an allowed
\* request of its event type, and a well-formed request of that type let through
\* at the same instant, right after it: the 400 took no rate-limit slot
C11_Witness ==
    \E i, j, k \in 1..Len(evlog) :
        /\ i < j /\ j < k
        /\ Recorded(evlog[i])
        /\ evlog[j].event = evlog[i].event /\ evlog[j].title = Missing
        /\ evlog[j].resp = "400" /\ evlog[j].at - evlog[i].at = RATE_LIMIT_MS
        /\ evlog[k].event = evlog[i].event /\ evlog[k].at = evlog[j].at
        /\ Allowed(evlog[k])
        /\ lastEventTime[evlog[k].event] = evlog[k].at

(* ---- properties of the batcher and of the forwarder ------------------- *)
FlushPosts(b) == {p \in 1..Len(sink) : sink[p].src = "flush" /\ sink[p].bucket = b}
\* the posts that carry tool call r, alone or inside a collapsed summary
PostsCarrying(r) ==
    {p \in 1..Len(sink) : sink[p].src # "events"
                          /\ \E k \in 1..Len(sink[p].entries) : sink[p].entries[k] = r}
AlonePosts(r) == {p \in PostsCarrying(r) : ~sink[p].collapsed}
\* the tool calls buffered in bucket b, from the request log
BufferedIn(b) == {r \in 1..Len(tlog) : tlog[r].bucket = b}
\* the entries posted one by one for bucket b, in the order of their posts
PostedAlone(b) ==
    LET ps == SelectSeq(sink, LAMBDA p : p.src = "flush" /\ p.bucket = b /\ ~p.collapsed)
    IN [k \in 1..Len(ps) |-> ps[k].entries[1]]
\* requests are numbered in arrival order
InArrivalOrder(seq) == \A i, j \in 1..Len(seq) : i < j => seq[i] < seq[j]
Range(seq) == {seq[k] : k \in 1..Len(seq)}

\* C3: every activity posted to the sink has passed the rate-limit check and
\* then the duplicate-title check (stated as the claim has it; the /tools path
\* and the bucket flushes consult neither gate).
C3_EveryPostGated == \A p \in 1..Len(sink) : sink[p].gated

\* C4: a bucket that holds FILE_READ_BATCH_THRESHOLD or more entries when it is
\* flushed gets exactly one post, the collapsed summary counting all its buffered
\* entries, and none of these entries is ever posted on its own.
C4_CollapsedOnce ==
    \A fi \in 1..Len(flushes) :
        LET b == flushes[fi].bucket
        IN Cardinality(BufferedIn(b)) >= FILE_READ_BATCH_THRESHOLD =>
             /\ Cardinality(FlushPosts(b)) = 1
             /\ \A p \in FlushPosts(b) :
                   sink[p].collapsed /\ Range(sink[p].entries) = BufferedIn(b)
                       /\ Len(sink[p].entries) = Cardinality(BufferedIn(b))
             /\ \A r \in BufferedIn(b) : AlonePosts(r) = {}

\* a bucket of five entries was flushed and its summary reached the sink
C4_Witness ==
    \E fi \in 1..Len(flushes) :
        /\ Cardinality(BufferedIn(flushes[fi].bucket)) = FILE_READ_BATCH_THRESHOLD
        /\ flushes[fi].done
        /\ \E p \in FlushPosts(flushes[fi].bucket) : sink[p].result = "ok"

\* C5: a bucket of fewer than FILE_READ_BATCH_THRESHOLD entries flushed by its
\* timer has its entries posted one by one, each once, in the order in which the
\* tool calls arrived, all of them once the flush is over; a bucket not yet
\* flushed has no post (stated as the claim has it).
C5_TimerFlushInArrivalOrder ==
    /\ \A fi \in 1..Len(flushes) :
          LET b == flushes[fi].bucket
          IN (flushes[fi].trigger = "timer"
                  /\ Cardinality(BufferedIn(b)) < FILE_READ_BATCH_THRESHOLD) =>
               /\ \A p \in FlushPosts(b) : ~sink[p].collapsed
               /\ InArrivalOrder(PostedAlone(b))
               /\ Range(PostedAlone(b)) \subseteq BufferedIn(b)
               /\ flushes[fi].done => Range(PostedAlone(b)) = BufferedIn(b)
    /\ \A i \in 1..Len(fileReadBuckets) :
          /\ FlushPosts(fileReadBuckets[i].id) = {}
          /\ \A r \in BufferedIn(fileReadBuckets[i].id) : PostsCarrying(r) = {}

\* C6: no bucket is flushed twice; when a post of a bucket exists the bucket is
\* out of the map and its timer is not armed; a bucket still in the map was not
\* flushed; every flush post belongs to the one flush of its bucket; no buffered
\* entry is carried by two posts.
C6_FlushedOnce ==
    /\ \A fi, fj \in 1..Len(flushes) :
          flushes[fi].bucket = flushes[fj].bucket => fi = fj
    /\ \A p \in 1..Len(sink) :
          sink[p].src = "flush" =>
             /\ \A i \in 1..Len(fileReadBuckets) : fileReadBuckets[i].id # sink[p].bucket
             /\ \A tm \in timers : tm.bucket # sink[p].bucket
             /\ sink[p].ref \in 1..Len(flushes)
             /\ flushes[sink[p].ref].bucket = sink[p].bucket
    /\ \A i \in 1..Len(fileReadBuckets) :
          \A fi \in 1..Len(flushes) : flushes[fi].bucket # fileReadBuckets[i].id
    /\ \A r \in 1..Len(tlog) : Cardinality(PostsCarrying(r)) <= 1

\* the shutdown drain called flush for a key whose bucket a timer had flushed
\* meanwhile, and found nothing
C6_Witness ==
    /\ \E d \in 1..Len(drains) : drains[d].empty > 0
    /\ \E fi, fj \in 1..Len(flushes) :
          /\ flushes[fi].trigger = "timer" /\ flushes[fj].trigger = "shutdown"
          /\ flushes[fi].done /\ flushes[fj].done

\* C7: once the process has exited, every tool call answered 202 buffered is
\* carried by a post to the sink (stated as the claim has it).
C7_NothingDroppedAtExit ==
    exited => \A r \in 1..Len(tlog) :
                 tlog[r].resp = "202 buffered" => PostsCarrying(r) # {}

\* C8: within one bucket, entries are posted in the order in which their
\* requests arrived (stated as the claim has it).
C8_PostedInArrivalOrder ==
    \A fi \in 1..Len(flushes) : InArrivalOrder(PostedAlone(flushes[fi].bucket))

\* C9: every failed post was surfaced to an HTTP caller (stated as the claim
\* has it).
C9_EveryFailureSurfaced ==
    \A p \in 1..Len(sink) : sink[p].result = "fail" => sink[p].surfaced

(* ---- properties of POST /tools ----------------------------------------- *)
NonEmptyString(value) == value.type = "string" /\ value.str # ""
NonBlankString(value) == value.type = "string" /\ value.str \notin {"", "  "}
\* tool call r sits in a bucket of the map
Buffered(r) ==
    \E i \in 1..Len(fileReadBuckets) : r \in Range(fileReadBuckets[i].entries)
\* tool call r was received or answered in this step
Answered(r, resp) ==
    /\ r \in 1..Len(tlog')
    /\ tlog'[r].resp = resp
    /\ r \in 1..Len(tlog) => tlog[r].resp # resp

\* the contract of POST /tools, for a given reading of "valid tool field"
ToolsContract(ValidTool(_)) ==
    \A r \in 1..Len(tlog) :
            LET t == tlog[r]
                valid == t.body.type = "object" /\ ValidTool(t.body.tool)
                             /\ t.body.params.type = "object"
            IN /\ (t.resp = "400") <=> ~valid
               /\ t.resp = "400" =>
                     t.post = 0 /\ t.bucket = 0 /\ PostsCarrying(r) = {} /\ ~Buffered(r)
               /\ (valid /\ t.kind # "file_read") =>
                     /\ t.resp \in {"pending", "202 forwarded", "502"}
                     /\ PostsCarrying(r) = {t.post} /\ sink[t.post].src = "tools"
                     /\ ~Buffered(r) /\ t.bucket = 0
                     /\ (t.resp = "202 forwarded") <=> (sink[t.post].result = "ok")
                     /\ (t.resp = "502") <=> (sink[t.post].result = "fail")
               /\ (valid /\ t.kind = "file_read") =>
                     /\ t.resp \in {"pending", "202 buffered"}
                     /\ t.post = 0
                     /\ (t.resp = "202 buffered") <=> (t.bucket # 0)
                     /\ t.resp = "pending" => PostsCarrying(r) = {} /\ ~Buffered(r)
\* the step that answers a tool call: a file read answered 202 buffered is in a
\* bucket and in no post; a 400 leaves the sink and the batcher as they were
ToolsAnswerStep ==
    \A r \in 1..Len(tlog') :
        /\ Answered(r, "202 buffered") =>
               PostsCarrying(r)' = {} /\ Buffered(r)' /\ tlog'[r].kind = "file_read"
        /\ Answered(r, "400") =>
               sink' = sink /\ fileReadBuckets' = fileReadBuckets
                   /\ timers' = timers /\ flushes' = flushes

\* C12 as stated: 400 exactly when the body is not an object with a non-empty
\* string tool and an object params, and then nothing is posted or buffered;
\* otherwise a call that is not a file read is posted once and answered 202
\* forwarded or 502 by the sink's answer, and a file read is buffered without a
\* post of its own and answered 202 buffered.
C12_ToolsAsStated == []ToolsContract(NonEmptyString) /\ [][ToolsAnswerStep]_vars

\* C12 amended: as above, with a tool field that is a string holding more than
\* white space.
C12_ToolsContract == []ToolsContract(NonBlankString) /\ [][ToolsAnswerStep]_vars

\* a body whose tool is blank answered 400 while a read of an earlier request
\* sat in its bucket untouched
C12_Witness ==
    \E r, q \in 1..Len(tlog) :
        /\ r < q
        /\ tlog[r].resp = "202 buffered" /\ Buffered(r)
        /\ tlog[q].body.tool = Str("  ") /\ tlog[q].resp = "400"
        /\ ~Buffered(q) /\ Len(sink) = 0

(* ---- properties of POST /batch ----------------------------------------- *)
\* the items of batch B whose tool call ended in an error the response reports
Reported(B) ==
    {k \in 1..Len(B.refs) : tlog[B.refs[k]].resp \in {"400", "502"}}

\* C13: a /batch request with an array body takes its items one at a time in
\* index order (an item is taken only when the outcome of the one before is
\* known), an invalid or failed item does not end the loop, and the response
\* has status 202 and ok exactly when errors is empty and status 207 and not ok
\* otherwise, with accepted + length(errors) = length(payload), buffered <=
\* accepted, and one errors entry, carrying its index, per invalid or failed item.
C13_BatchResponse ==
    \A bi \in 1..Len(batches) :
        LET B == batches[bi]
            n == Len(B.payload.items)
        IN B.payload.type = "array" =>
             /\ InArrivalOrder(B.refs)
             /\ Len(B.refs) = B.index + (IF B.waiting = 0 THEN 0 ELSE 1)
             /\ \A k \in 1..Len(B.refs) :
                   /\ tlog[B.refs[k]].body = B.payload.items[k]
                   /\ tlog[B.refs[k]].resp = "pending" =>
                         (k = Len(B.refs) /\ B.waiting = B.refs[k])
             /\ B.accepted + Len(B.errors) = B.index
             /\ B.buffered + B.forwarded = B.accepted
             /\ Len(B.errors) = Cardinality(Reported(B))
             /\ \A e \in 1..Len(B.errors) :
                   /\ (B.errors[e].index + 1) \in Reported(B)
                   /\ \A d \in 1..(e - 1) : B.errors[d].index < B.errors[e].index
             /\ B.status \in {"pending", "202", "207"}
             /\ B.status = "pending" => (B.index < n /\ B.waiting # 0)
             /\ B.status # "pending" =>
                   /\ B.index = n /\ Len(B.refs) = n /\ B.waiting = 0
                   /\ B.accepted + Len(B.errors) = n
                   /\ B.buffered <= B.accepted
                   /\ (B.status = "202") <=> (Len(B.errors) = 0)
                   /\ (B.status = "207") <=> (Len(B.errors) > 0)
                   /\ B.ok <=> (Len(B.errors) = 0)

\* a batch of three items answered 207: the first item failed at the sink, the
\* second was invalid, and the third was still taken and buffered
C13_Witness ==
    \E bi \in 1..Len(batches) :
        LET B == batches[bi]
        IN /\ Len(B.payload.items) = 3 /\ B.status = "207" /\ ~B.ok
           /\ Len(B.errors) = 2 /\ B.errors[1].index = 0 /\ B.errors[2].index = 1
           /\ tlog[B.refs[1]].resp = "502" /\ tlog[B.refs[2]].resp = "400"
           /\ B.accepted = 1 /\ B.buffered = 1
           /\ tlog[B.refs[3]].resp = "202 buffered"

Returned(k) == k \in 1..Len(fwdLog) /\ fwdLog[k].pc = "returned"
Is2xx(resp) == ~resp.net /\ resp.status \in 200..299

\* C10 as stated: one POST per call, and failure exactly on a network error or
\* a status outside 2xx.
C10_FailureOnlyOnErrorOrNon2xx ==
    \A k \in 1..Len(fwdLog) :
        Returned(k) =>
            /\ fwdLog[k].posts = 1
            /\ (~fwdLog[k].result.ok) <=> ~Is2xx(fwdLog[k].resp)

\* C10 amended: one POST per call; failure exactly on a network error, a status
\* outside 2xx, or a 2xx body that is a JSON object with ok false; the error is
\* the exception's message, "HTTP <status>", or absent in the third case.
C10_ForwardResult ==
    \A k \in 1..Len(fwdLog) :
        Returned(k) =>
            LET resp == fwdLog[k].resp
                res == fwdLog[k].result
            IN /\ fwdLog[k].posts = 1
               /\ (~res.ok) <=> (~Is2xx(resp) \/ resp.body = "okFalse")
               /\ resp.net => res.error = "message"
               /\ (~resp.net /\ ~Is2xx(resp)) => res.error = "HTTP status"
               /\ Is2xx(resp) => res.error = "none"

\* a 204 with an empty body returned as success, and a 200 whose body says
\* ok:false returned as failure
C10_Witness ==
    \E j, k \in 1..Len(fwdLog) :
        /\ Returned(j) /\ fwdLog[j].resp.status = 204 /\ fwdLog[j].resp.body = "empty"
        /\ fwdLog[j].result.ok
        /\ Returned(k) /\ fwdLog[k].resp.status = 200 /\ fwdLog[k].resp.body = "okFalse"
        /\ ~fwdLog[k].result.ok

(* ---- backfill scanner: properties --------------------------------------- *)
Runs == 1..Len(hist)
\* the entries of the trail that run r wrote
EventsOf(r) == {e \in 1..Len(trail) : trail[e].run = r}
\* the POSTs run r issued to the sink, answered or not
PostsOf(r) == {e \in EventsOf(r) : trail[e].kind \in {"sent", "failed"}}
\* the state run r started from (r finished or in progress)
LoadedBy(r) == IF r \in Runs THEN hist[r].before ELSE run.loaded
Started(r) == r \in Runs \/ (run.id = r /\ run.pc \notin {"idle", "done"})
\* run r ended, neither aborted nor with a failed post, and was not a dry run
CleanRun(r) ==
    /\ r \in Runs
    /\ hist[r].opts.valid /\ ~hist[r].opts.dryRun
    /\ ~hist[r].fatal
    /\ hist[r].saved
    /\ \A e \in EventsOf(r) : trail[e].kind # "failed"

\* C14: after a run that was not a dry run and finished without a failed post,
\* the next run over the same files, started from the state file the first one
\* wrote, issues no POST to the sink
C14_SecondRunPostsNothing ==
    \A r \in Runs :
        (CleanRun(r) /\ Started(r + 1) /\ LoadedBy(r + 1) = loadState(hist[r].after))
            => PostsOf(r + 1) = {}

\* a first run that posted the activities of two files, one of them stamped
\* with the clock, then a complete second run that is not a dry run
C14_Witness ==
    /\ Len(hist) >= 2
    /\ CleanRun(1) /\ hist[1].stats.sent >= 4 /\ hist[1].opts.sinceMs = 0
    /\ \E e \in EventsOf(1) :
           trail[e].kind = "sent" /\ files[trail[e].file].lines[trail[e].line + 1].ts = NoTs
    /\ hist[2].opts.valid /\ ~hist[2].opts.dryRun /\ hist[2].opts.sinceMs = 0
    /\ ~hist[2].fatal /\ hist[2].opened = Len(files)

\* the tool results of file f as <<line, res>>, line 0-based as in the trail
ResultsIn(f) ==
    UNION {{<<l, i>> : i \in 1..Len(extractToolResults(files[f].lines[l + 1]))} :
               l \in 0..(Len(files[f].lines) - 1)}
ResultAt(f, p) == extractToolResults(files[f].lines[p[1] + 1])[p[2]]
\* the result is one half of a pair: its call stands on its line or before it
IsPair(f, p) ==
    \E l \in 0..p[1] :
        \E c \in 1..Len(files[f].lines[l + 1].calls) :
            files[f].lines[l + 1].calls[c].id = ResultAt(f, p).id
\* the pairs of file f, and the order in which one pass extracts them
PairsIn(f) == {p \in ResultsIn(f) : IsPair(f, p)}
Precedes(p, q) == p[1] < q[1] \/ (p[1] = q[1] /\ p[2] < q[2])
\* the entries run r wrote for the result p of file f
EventsAbout(r, f, p) ==
    {e \in EventsOf(r) : trail[e].file = f /\ trail[e].line = p[1] /\ trail[e].res = p[2]
                           /\ trail[e].activity.toolCallId = ResultAt(f, p).id}
\* run r finished: every file read, the sink and the store answering, no
\* --dry-run and no --since
WorkingRun(r) ==
    /\ r \in Runs
    /\ hist[r].opts = [valid |-> TRUE, dryRun |-> FALSE, sinceMs |-> 0]
    /\ ~hist[r].fatal
    /\ \A e \in EventsOf(r) : trail[e].kind # "failed"

\* C15: when the post of the k-th pair of a file fails and the run is
\* persisted, the next run, with a working sink, posts an activity for each of
\* the pairs k..n of that file and posts none for the pairs 1..k-1
C15_ResumeForwardsTheRest ==
    \A r \in Runs : \A e \in EventsOf(r) :
        ( /\ trail[e].kind = "failed"
          /\ hist[r].saved
          /\ WorkingRun(r + 1)
          /\ LoadedBy(r + 1) = loadState(hist[r].after) )
        => LET f == trail[e].file
               k == <<trail[e].line, trail[e].res>>
           IN \A p \in PairsIn(f) :
                  IF Precedes(p, k)
                  THEN \A e2 \in EventsAbout(r + 1, f, p) :
                           trail[e2].kind \notin {"sent", "failed"}
                  ELSE \E e2 \in EventsAbout(r + 1, f, p) : trail[e2].kind = "sent"

\* C16: after the first failed post of a run nothing more of that run is
\* processed: no further post, no further result, line or file; the run goes
\* straight to its end, with the failing file the last one opened and its
\* offset left at the failing line
C16_HaltAfterFailedPost ==
    \A e \in 1..Len(trail) :
        trail[e].kind = "failed" =>
            LET r == trail[e].run
            IN /\ \A e2 \in EventsOf(r) : e2 <= e
               /\ (run.id = r /\ r \notin Runs) =>
                      run.halted /\ run.pc \in {"file", "save"}
               /\ r \in Runs =>
                      /\ hist[r].stats.postErrors = 1
                      /\ hist[r].opened = trail[e].file
                      /\ hist[r].after.files[files[trail[e].file].path] = trail[e].line

\* a run over two files that ended after the post for the first of two results
\* on one line failed, lines and a file still unread
C16_Witness ==
    \E e \in 1..Len(trail) :
        /\ trail[e].kind = "failed"
        /\ trail[e].run \in Runs
        /\ trail[e].file < Len(files)
        /\ trail[e].res < Len(extractToolResults(files[trail[e].file].lines[trail[e].line + 1]))
        /\ trail[e].line + 1 < Len(files[trail[e].file].lines)
        /\ \E e1 \in EventsOf(trail[e].run) : e1 < e /\ trail[e1].kind = "open"

\* a post of run r failed
PostFailedIn(r) == \E e \in EventsOf(r) : trail[e].kind = "failed"

\* C17 as stated: a run exits with a non-zero code if and only if one of its
\* posts failed
C17_ExitCodeAsStated ==
    \A r \in Runs : (hist[r].exitCode # 0) <=> PostFailedIn(r)

\* C17: a run exits with a non-zero code if and only if one of its posts
\* failed or an exception escaped main (an invalid argument, an unreadable
\* file, both remote dedup queries failing); parse errors, --since skips,
\* duplicates and a range query answered by the fallback leave the code at 0
C17_ExitCode ==
    \A r \in Runs : (hist[r].exitCode # 0) <=> (PostFailedIn(r) \/ hist[r].fatal)

\* a run that met a parse error, a duplicate and the fallback query and exited
\* 0, and a run that saw a post fail, was not aborted and exited 1
C17_Witness ==
    /\ Len(hist) >= 2
    /\ \E r \in Runs :
           /\ hist[r].exitCode = 0
           /\ hist[r].stats.parseErrors > 0
           /\ hist[r].warnings > 0
           /\ hist[r].stats.skippedDuplicateRun > 0
    /\ \E r \in Runs : hist[r].exitCode = 1 /\ PostFailedIn(r) /\ ~hist[r].fatal

\* the entries of the trail that tell the fate of a result once it passed the
\* --since filter
Fates == {"dupRun", "dupConvex", "dryRun", "sent", "failed", "fatal"}
KeyOf(e) == keyFromActivity(trail[e].activity)
\* the dry runs, finished or in progress
DryRuns == {r \in 1..(Len(hist) + 1) :
                Started(r) /\ (IF r \in Runs THEN hist[r].opts.dryRun ELSE run.opts.dryRun)}
\* what a dry run has done so far: no post; a result is counted as dry-run
\* exactly when its key was in neither layer, and is then in both, so that a
\* later result of the run with the same key is a duplicate of the run
DryRunSoFar ==
    \A r \in DryRuns :
        /\ PostsOf(r) = {}
        /\ \A e \in EventsOf(r) :
               /\ trail[e].kind = "dryRun" => ~trail[e].inRun /\ ~trail[e].inDay
               /\ (trail[e].kind \in Fates \ {"fatal"} /\ ~trail[e].inRun /\ ~trail[e].inDay)
                      => trail[e].kind = "dryRun"
               /\ trail[e].kind = "dryRun" =>
                      /\ \A e2 \in EventsOf(r) :
                             (e2 > e /\ trail[e2].kind \in Fates /\ KeyOf(e2) = KeyOf(e))
                                 => trail[e2].kind = "dupRun"
                      /\ (run.id = r) =>
                             /\ KeyOf(e) \in run.runKeys
                             /\ dayStart(trail[e].activity.timestamp) \in DOMAIN run.dayCache
                             /\ KeyOf(e) \in run.dayCache[dayStart(trail[e].activity.timestamp)]
        /\ r \in Runs =>
               /\ ~hist[r].saved
               /\ hist[r].stats.sent = 0 /\ hist[r].stats.postErrors = 0
               /\ hist[r].stats.dryRun =
                      Cardinality({e \in EventsOf(r) : trail[e].kind = "dryRun"})
\* a step of a dry run changes neither the store nor the state file
DryRunStep ==
    (run.pc \notin {"idle", "done"} /\ run.opts.dryRun)
        => (store' = store /\ stateFile' = stateFile)

\* C18: under --dry-run no post is issued and the state file is left as it
\* was, while each result whose key is in neither dedup layer is counted as
\* dry-run and its key recorded in the in-run set and the day cache, so that a
\* later identical activity of the run is skipped as a duplicate
C18_DryRun == []DryRunSoFar /\ [][DryRunStep]_vars

\* a complete dry run over files with two identical activities: the first
\* counted as dry-run, the second skipped as a duplicate of the run, the state
\* file as it was before the run
C18_Witness ==
    \E r \in Runs :
        /\ hist[r].opts.dryRun /\ ~hist[r].fatal /\ hist[r].opened = Len(files)
        /\ hist[r].stats.dryRun >= 2
        /\ ~hist[r].saved /\ stateFile = hist[r].after
        /\ \E e, e2 \in EventsOf(r) :
               /\ e < e2 /\ KeyOf(e) = KeyOf(e2)
               /\ trail[e].kind = "dryRun" /\ trail[e2].kind = "dupRun"

\* the lines of file f that JSON.parse rejects, 0-based
GarbageIn(f) == {l \in 0..(Len(files[f].lines) - 1) : files[f].lines[l + 1].kind = "garbage"}
\* the parse errors run r counted on line l of file f
ParseErrorsAt(r, f, l) ==
    {e \in EventsOf(r) : trail[e].kind = "parseError" /\ trail[e].file = f /\ trail[e].line = l}
\* the entries of run r that come after entry e
After(r, e) == {e2 \in EventsOf(r) : e2 > e}
\* run r is in the loop over the lines of file f, at line l
ReadingAt(r, f, l) ==
    run.id = r /\ r \notin Runs /\ run.pc \in {"line", "result"} /\ run.fileIdx = f
               /\ run.index = l
\* what the scanner does with the lines that are not JSON, so far
ParseErrorsSoFar ==
    /\ \A e \in 1..Len(trail) :
           trail[e].kind = "parseError" =>
               LET r == trail[e].run
                   f == trail[e].file
                   l == trail[e].line
               IN \* it is such a line, counted once, and nothing is posted for it
                  /\ l \in GarbageIn(f)
                  /\ Cardinality(ParseErrorsAt(r, f, l)) = 1
                  /\ \A e2 \in PostsOf(r) : ~(trail[e2].file = f /\ trail[e2].line = l)
                  \* the scan goes on with the next line of the file
                  /\ (After(r, e) = {} /\ r \notin Runs) => ReadingAt(r, f, l + 1)
                  /\ (After(r, e) # {}) =>
                         LET n == trail[CHOOSE x \in After(r, e) :
                                            \A y \in After(r, e) : x <= y]
                         IN /\ n.file = f
                            /\ n.line > l \/ n.kind = "close"
    /\ \A r \in Runs :
           (hist[r].opts.valid /\ ~hist[r].fatal /\ ~PostFailedIn(r)) =>
               \* every line that is not JSON and lies above the start offset
               \* was counted, every file was read, and the offsets saved or to
               \* be saved are past them
               /\ hist[r].stats.parseErrors =
                      Cardinality({e \in EventsOf(r) : trail[e].kind = "parseError"})
               /\ \A f \in 1..Len(files) : \A l \in GarbageIn(f) :
                      l >= StartOffset(MapGetOr(hist[r].before, files[f].path, 0),
                                       Len(files[f].lines))
                          => Cardinality(ParseErrorsAt(r, f, l)) = 1
               /\ hist[r].opened = Len(files)
               /\ hist[r].exitCode = 0
               /\ hist[r].saved =>
                      \A f \in 1..Len(files) :
                          hist[r].after.files[files[f].path] = Len(files[f].lines)
\* the step that meets a line that is not JSON: one more parse error, the
\* offset past the line, the loop at the next line, nothing posted or saved
ParseErrorStep ==
    (Len(trail') = Len(trail) + 1 /\ trail'[Len(trail')].kind = "parseError")
        => /\ run'.stats = [run.stats EXCEPT !.parseErrors = @ + 1]
           /\ run'.nextOffset = run.index + 1
           /\ run'.index = run.index + 1
           /\ run'.pc = "line" /\ ~run'.halted
           /\ store' = store /\ stateFile' = stateFile /\ hist' = hist

\* C19: a line that is not valid JSON is counted as one parse error and
\* skipped: the offset advances past it, the lines and files after it are
\* processed, nothing is posted for it and the exit code stays 0 unless
\* something else fails
C19_ParseErrorSkipped == []ParseErrorsSoFar /\ [][ParseErrorStep]_vars

\* a run whose first file starts with a line that is not JSON: results after
\* it were posted, the next file was read, the offsets were saved, exit code 0
C19_Witness ==
    \E r \in Runs :
        /\ 0 \in GarbageIn(1) /\ Len(files) = 2
        /\ hist[r].stats.parseErrors = 1 /\ hist[r].stats.sent >= 4
        /\ hist[r].saved /\ hist[r].exitCode = 0
        /\ \E e \in EventsOf(r) : trail[e].kind = "sent" /\ trail[e].file = 1
        /\ \E e \in EventsOf(r) : trail[e].kind = "sent" /\ trail[e].file = 2

\* the lookups of run r whose range query failed
RangeFailuresOf(r) == {e \in EventsOf(r) : trail[e].query \in {"fallback", "down"}}
AllReadable == \A f \in 1..Len(files) : files[f].readable

\* C20: when the range query for a day fails, the run is not aborted: the
\* activity at hand gets its verdict, the rest of the files is processed, and
\* the fallback warning is logged at most once in the run
C20_RangeFailureNotFatal ==
    /\ \A e \in 1..Len(trail) :
           trail[e].query \in {"fallback", "down"} => trail[e].kind \in Fates \ {"fatal"}
    /\ \A r \in Runs :
           /\ hist[r].warnings <= 1
           /\ (RangeFailuresOf(r) # {} /\ AllReadable /\ ~PostFailedIn(r)) =>
                  ~hist[r].fatal /\ hist[r].opened = Len(files)
    /\ run.warnings <= 1

(* ---- backfill scanner: the state file ----------------------------------- *)
\* a complete state document, or no file
Intact(doc) == doc = AbsentFile \/ doc.version = 1
\* a step leaves the state file as it was or installs the complete new state
SaveStep == stateFile' = stateFile \/ stateFile' = saveState(run.state)

\* C21: the state file is rewritten atomically: at every moment, a kill in the
\* middle of the save included, it holds the complete state of before the
\* save or the complete state of after it
C21_AtomicSave == []Intact(stateFile) /\ [][SaveStep]_vars

(* ---- classifier: properties --------------------------------------------- *)
\* the name contains "bash", "exec" or "shell", in any letter case
NamesShell(name) == \E i \in 1..Len(name) : name[i].word \in {"bash", "exec", "shell"}
Classified == probe.fn = "classifyTool" /\ probe.done

\* C22: a tool name that contains "bash", "exec" or "shell" in any letter case
\* is classified exec and its activity type is code, whatever else it contains
C22_ShellNamesAreExec ==
    (Classified /\ NamesShell(probe.name)) => (probe.kind = "exec" /\ probe.type = "code")

\* "messageBASH": the name also holds a word of another rule, and the shell
\* word is in upper case
C22_Witness ==
    /\ Classified
    /\ probe.name = <<Piece("message", FALSE), Piece("bash", TRUE)>>
    /\ probe.kind = "exec" /\ probe.type = "code"

(* ---- inferStatusFromResult: properties ---------------------------------- *)
Inferred == probe.fn = "inferStatus" /\ probe.done
\* the text of result.status, trimmed; "" if it is not a string
StatusText(r) == IF r.status.type = "string" THEN Trim(r.status.str) ELSE ""
IsFalse(value) == value.type = "boolean" /\ value.str = "false"
IsTrue(value) == value.type = "boolean" /\ value.str = "true"
\* the first of exitCode, code that is a finite number is not 0
NonZeroCode(r) ==
    IF isFiniteNumber(r.exitCode) THEN r.exitCode.str # "0"
    ELSE isFiniteNumber(r.code) /\ r.code.str # "0"
RECURSIVE StatedStatus(_)
\* the five rules in the order of the claim
StatedStatus(r) ==
    IF r.type = "undefined" THEN "success"
    ELSE IF StatusText(r) \in {"success", "error", "pending"} THEN StatusText(r)
    ELSE IF Truthy(r.error) \/ IsFalse(r.ok) \/ IsFalse(r.success) THEN "error"
    ELSE IF NonZeroCode(r) THEN "error"
    ELSE IF r.details.type = "object" THEN StatedStatus(r.details)
    ELSE "success"
RECURSIVE RuledStatus(_)
\* the same with the two further error marks of the second rule
RuledStatus(r) ==
    IF r.type = "undefined" THEN "success"
    ELSE IF StatusText(r) \in {"success", "error", "pending"} THEN StatusText(r)
    ELSE IF \/ Truthy(r.error) \/ Truthy(r.errorMessage) \/ IsTrue(r.isError)
            \/ IsFalse(r.ok) \/ IsFalse(r.success)
    THEN "error"
    ELSE IF NonZeroCode(r) THEN "error"
    ELSE IF r.details.type = "object" THEN RuledStatus(r.details)
    ELSE "success"
\* the examples of the claim
Bare(r) == With(r, Undefined)
StatusExamples ==
    /\ probe.result = Undefined => probe.status = "success"
    /\ probe.result = Bare(EmptyResult) => probe.status = "success"
    /\ probe.result = Bare([EmptyResult EXCEPT !.status = Str("pending")])
           => probe.status = "pending"
    /\ probe.result = Bare([EmptyResult EXCEPT !.ok = Bool("false")])
           => probe.status = "error"
    /\ probe.result = Bare([EmptyResult EXCEPT !.code = Num("0")])
           => probe.status = "success"

\* C23 as stated: the status is decided by the five rules of the claim, the
\* second being: result.error truthy, or ok false, or success false
C23_StatusAsStated ==
    Inferred => (probe.status = StatedStatus(probe.result) /\ StatusExamples)

\* C23: the status is decided by strict precedence: the explicit status
\* (trimmed) if it is one of the three; else error if error or errorMessage is
\* truthy, isError is true, ok is false or success is false; else error if the
\* first finite number among exitCode, code is not 0; else the status of a
\* nested details object; else success
C23_StatusPrecedence ==
    Inferred => (probe.status = RuledStatus(probe.result) /\ StatusExamples)

\* a status that is none of the three, a falsy error, exitCode 0 before code 1,
\* and details that say pending: the answer comes from details
C23_Witness ==
    /\ Inferred
    /\ probe.result.type = "object"
    /\ probe.result.status = Str("done") /\ probe.result.error = Str("")
    /\ probe.result.exitCode = Num("0") /\ probe.result.code = Num("1")
    /\ probe.result.errorMessage = Undefined /\ probe.result.isError = Str("yes")
    /\ probe.result.details = With([EmptyResult EXCEPT !.status = Str("pending")], ArrayValue)
    /\ probe.status = "pending"

(* ---- backfill scanner: dedup layers, offsets, pairing -------------------- *)
DayOf(e) == dayStart(trail[e].activity.timestamp)
\* the key of entry e is in the in-run set, in the cached keys of its day
InRunKeys(e) == KeyOf(e) \in run.runKeys
InDayCache(e) == DayOf(e) \in DOMAIN run.dayCache /\ KeyOf(e) \in run.dayCache[DayOf(e)]
\* the runs that are not dry runs, finished or in progress
WetRuns == {r \in 1..(Len(hist) + 1) :
                Started(r) /\ ~(IF r \in Runs THEN hist[r].opts.dryRun ELSE run.opts.dryRun)}
\* the entries of run r about the same result as entry e
SameResult(r, e) ==
    {e2 \in EventsOf(r) : /\ trail[e2].kind \in Fates \cup {"since"}
                          /\ trail[e2].file = trail[e].file
                          /\ trail[e2].line = trail[e].line
                          /\ trail[e2].res = trail[e].res}

SavedOffset(r, f) == MapGetOr(loadState(hist[r].after), files[f].path, 0)
\* the results of the line of entry e that stand before the result of e
EarlierOnLine(r, e) ==
    {e2 \in EventsOf(r) : /\ trail[e2].file = trail[e].file
                          /\ trail[e2].line = trail[e].line
                          /\ trail[e2].res < trail[e].res}

\* the offset saved after a failed post is the index of the line of the result
\* whose post failed
OffsetOfFailedLine ==
    \A r \in Runs : \A e \in EventsOf(r) :
        (trail[e].kind = "failed" /\ hist[r].saved) =>
            SavedOffset(r, trail[e].file) = trail[e].line

\* C25: when a post fails for a result on line i of a file, the offset saved
\* for the file is i; and a result of line i that stands before it and was
\* posted by that run is not posted again by the run that resumes from line i
C25_FailedLineReadAgain ==
    /\ OffsetOfFailedLine
    /\ \A r \in Runs : \A e \in EventsOf(r) :
           ( /\ trail[e].kind = "failed" /\ hist[r].saved
             /\ Started(r + 1) /\ LoadedBy(r + 1) = loadState(hist[r].after) ) =>
               \A e1 \in EarlierOnLine(r, e) :
                   trail[e1].kind = "sent" =>
                       \A e2 \in SameResult(r + 1, e1) : trail[e2].kind # "sent"

\* the offset of a path in a state document
OffsetIn(doc, path) == MapGetOr(loadState(doc), path, 0)
\* run r + 1 started from the state file run r left
Resumes(r) == r \in Runs /\ r + 1 \in Runs /\ hist[r + 1].before = loadState(hist[r].after)

\* C26: with files that only grow by appended lines, the offset saved for a
\* file never decreases from one run to the run that resumes from its state
\* file, every saved offset lies between 0 and the number of lines of the
\* file, and a run reads no line below the offset it loaded for the file
C26_OffsetMonotonic ==
    /\ \A r \in Runs : Resumes(r) =>
           \A f \in 1..Len(files) :
               OffsetIn(hist[r].after, files[f].path) <= OffsetIn(hist[r + 1].after, files[f].path)
    /\ \A r \in Runs : \A f \in 1..Len(files) :
           /\ 0 <= OffsetIn(hist[r].after, files[f].path)
           /\ OffsetIn(hist[r].after, files[f].path) <= Len(files[f].lines)
    /\ run.pc \in {"line", "result"} =>
           run.index >= MapGetOr(run.loaded, files[run.fileIdx].path, 0)

\* a file was read to its end and its offset saved, then it grew, and the next
\* run resumed from that offset and saved a larger one
C26_Witness ==
    /\ Resumes(1)
    /\ \E f \in 1..Len(files) :
           /\ OffsetIn(hist[1].after, files[f].path) = 1
           /\ OffsetIn(hist[2].after, files[f].path) = 3
           /\ files[f].tail = << >> /\ Len(files[f].lines) = 3

\* the calls still pending when one pass over file f reaches result p: those
\* registered so far, less those that the results before p have taken
RECURSIVE PendingBefore(_, _, _)
PendingBefore(f, l, i) ==
    IF l < 0 THEN << >>
    ELSE LET line == files[f].lines[l + 1]
             before == IF i > 1 THEN PendingBefore(f, l, i - 1)
                       ELSE IF l = 0 THEN Register(<< >>, line.calls)
                       ELSE Register(PendingBefore(f, l - 1,
                                        Len(extractToolResults(files[f].lines[l])) + 1),
                                     line.calls)
             results == extractToolResults(line)
         IN IF i = 1 \/ i - 1 > Len(results) THEN before
            ELSE [id \in (DOMAIN before) \ {results[i - 1].id} |-> before[id]]
\* the activity one pass over the whole of file f builds for its result p,
\* stamped as the entry e is
OnePass(f, p, e) ==
    buildActivity(ResultAt(f, p), PendingBefore(f, p[1], p[2]), trail[e].activity.timestamp)
\* what the claim compares: tool name, title and type
Built(activity) == [tool |-> activity.tool, title |-> activity.title]

\* C27: whatever the offset a run resumes from, the activity it builds for a
\* tool result has the tool name and the title that one pass over the whole
\* file builds for it
C27_SplitBuildsTheSame ==
    \A e \in 1..Len(trail) :
        trail[e].activity # NoActivity =>
            Built(trail[e].activity)
                = Built(OnePass(trail[e].file, <<trail[e].line, trail[e].res>>, e))

\* the candidate activities run r built on line l of file f
Candidates(r, f, l) ==
    {e \in EventsOf(r) : /\ trail[e].file = f /\ trail[e].line = l
                         /\ trail[e].activity # NoActivity}
\* the lines of file f that run r read to their end
LinesRead(r, f) ==
    {l \in 0..(Len(files[f].lines) - 1) :
        /\ MapGetOr(hist[r].before, files[f].path, 0) <= l
        /\ l < OffsetIn(hist[r].after, files[f].path)}
\* run r read file f from its first line
FromFirstLine(r, f) == MapGetOr(LoadedBy(r), files[f].path, 0) = 0

\* C28 with the scanner reading every result block and an unmatched result
\* always named "unknown": every result block of a line that was read yields
\* one candidate activity, and a result without a pending call builds a call
\* with tool "unknown" and empty params
C28_UnmatchedIsUnknown ==
    /\ \A r \in Runs : (hist[r].saved /\ ~hist[r].fatal) =>
           \A f \in 1..Len(files) : \A l \in LinesRead(r, f) :
               Cardinality(Candidates(r, f, l)) = Len(files[f].lines[l + 1].results)
    /\ \A e \in 1..Len(trail) :
           ( /\ trail[e].activity # NoActivity
             /\ FromFirstLine(trail[e].run, trail[e].file)
             /\ trail[e].activity.toolCallId
                    \notin DOMAIN PendingBefore(trail[e].file, trail[e].line, trail[e].res) )
           => (trail[e].activity.tool = "unknown" /\ trail[e].activity.params = EmptyParams)

\* every result with a call id of a line that was read has exactly one
\* candidate activity
OneCandidateEach ==
    \A r \in Runs : (hist[r].saved /\ ~hist[r].fatal) =>
        \A f \in 1..Len(files) : \A l \in LinesRead(r, f) :
            LET results == extractToolResults(files[f].lines[l + 1])
            IN /\ Cardinality(Candidates(r, f, l)) = Len(results)
               /\ \A i \in 1..Len(results) :
                      \E e \in Candidates(r, f, l) :
                          trail[e].res = i /\ trail[e].activity.toolCallId = results[i].id
\* one step of the loop over results: a matched result takes the tool and the
\* params of its pending call and removes it; an unmatched one takes the tool
\* name it carries, "unknown" if it carries none, and empty params
PairingStep ==
    (run.pc = "result" /\ Len(trail') = Len(trail) + 1) =>
        LET result == extractToolResults(files[run.fileIdx].lines[run.index + 1])[run.res]
            built == trail'[Len(trail')].activity
        IN /\ built.toolCallId = result.id
           /\ result.id \notin DOMAIN run'.pending
           /\ IF result.id \in DOMAIN run.pending
              THEN /\ built.tool = run.pending[result.id].tool
                   /\ built.params = run.pending[result.id].params
              ELSE /\ built.tool = (IF result.toolName # Missing THEN result.toolName
                                    ELSE "unknown")
                   /\ built.params = EmptyParams

\* C28: every tool result that carries a call id yields exactly one candidate
\* activity; a result whose id matches a pending call takes that call's tool
\* and params and consumes it; a result without a pending call is not dropped:
\* it builds a call with empty params under the tool name the result carries,
\* "unknown" if it carries none
C28_OneCandidatePerResult == []OneCandidateEach /\ [][PairingStep]_vars

\* a run read a pair, a second result for the same call id, which no longer
\* matched, a result block without a call id, and an unmatched result that
\* names its tool
C28_Witness ==
    /\ Len(hist) >= 1 /\ hist[1].saved /\ hist[1].stats.postErrors = 0
    /\ \E e1, e2, e3 \in EventsOf(1) :
           /\ e1 < e2 /\ e2 < e3
           /\ trail[e1].activity.toolCallId = "tC" /\ trail[e1].activity.tool = "read_file"
           /\ trail[e2].activity.toolCallId = "tC" /\ trail[e2].activity.tool = "unknown"
           /\ trail[e3].activity.toolCallId = "tD" /\ trail[e3].activity.tool = "exec_command"
           /\ Len(files[trail[e3].file].lines[trail[e3].line + 1].results) = 2
           /\ Cardinality(Candidates(1, trail[e3].file, trail[e3].line)) = 1

\* the options of run r (finished or in progress)
OptsOf(r) == IF r \in Runs THEN hist[r].opts ELSE run.opts
\* the activity of entry e is older than the --since of its run
BelowCutoff(e) ==
    /\ trail[e].activity # NoActivity
    /\ OptsOf(trail[e].run).sinceMs # 0
    /\ trail[e].activity.timestamp < OptsOf(trail[e].run).sinceMs
\* an activity below the cut-off is skipped as such, without a remote query,
\* and a run that saves its state saves an offset beyond the activity's line
SinceSoFar ==
    \A e \in 1..Len(trail) :
        BelowCutoff(e) =>
            /\ trail[e].kind = "since" /\ trail[e].query = "none"
            /\ (trail[e].run \in Runs /\ hist[trail[e].run].saved) =>
                   SavedOffset(trail[e].run, trail[e].file) > trail[e].line
\* the step that handles an activity below the cut-off: skippedSince is the
\* only thing counted, neither dedup layer and nothing in the store changes,
\* the scan goes on, and the line's end moves the offset past the line
SinceStep ==
    ( /\ run.pc = "result" /\ Len(trail') = Len(trail) + 1
      /\ run.opts.sinceMs # 0
      /\ trail'[Len(trail')].activity.timestamp < run.opts.sinceMs ) =>
        /\ trail'[Len(trail')].kind = "since"
        /\ run'.stats = [run.stats EXCEPT !.skippedSince = @ + 1]
        /\ run'.runKeys = run.runKeys /\ run'.dayCache = run.dayCache
        /\ store' = store /\ stateFile' = stateFile
        /\ ~run'.halted /\ ~run'.fatal /\ run'.pc \in {"result", "line"}
        /\ run'.pc = "line" => (run'.nextOffset = run.index + 1 /\ run'.index = run.index + 1)

\* C29: with --since set, an activity older than the cut-off is never posted
\* and never entered in a dedup layer; it is counted in skippedSince and in
\* nothing else, the scan goes on, and the offset of the file moves past its
\* line
C29_SinceSkips == []SinceSoFar /\ [][SinceStep]_vars

\* a run with --since skipped two activities, posted a later one of the same
\* file and saved the offset at the end of the file
C29_Witness ==
    \E r \in Runs :
        /\ hist[r].opts.sinceMs # 0 /\ ~hist[r].opts.dryRun /\ hist[r].saved
        /\ hist[r].stats.skippedSince = 2 /\ hist[r].stats.sent = 1
        /\ hist[r].stats.postErrors = 0
        /\ \E e \in EventsOf(r) :
               /\ trail[e].kind = "since"
               /\ SavedOffset(r, trail[e].file) = Len(files[trail[e].file].lines)

\* run r read every file to its end and no line was appended since
ReadToTheEnd(r) ==
    \A f \in 1..Len(files) : OffsetIn(hist[r].after, files[f].path) = Len(files[f].lines)

\* C30: after a complete run the state file is lost while the store keeps what
\* the run posted; the next run over the same files, which reads every offset
\* as 0, issues no POST to the sink
C30_StoreAloneSuppresses ==
    \A r \in Runs :
        ( /\ CleanRun(r) /\ ReadToTheEnd(r)
          /\ Started(r + 1) /\ LoadedBy(r + 1) = << >> )
        => PostsOf(r + 1) = {}

(* ---- properties of the batcher: window, threshold, summary, timers ------- *)
\* a bucket is started when the tool call that created it arrived
StartedAtArrival ==
    \A i \in 1..Len(fileReadBuckets) :
        fileReadBuckets[i].startedAt = tlog[fileReadBuckets[i].id].at
\* tool call r arrived within the window of the bucket that call b created
InWindowOf(r, b) == tlog[r].at - tlog[b].at <= FILE_READ_BATCH_WINDOW_MS

\* C31: no bucket, in the map or flushed, holds an entry that arrived more than
\* FILE_READ_BATCH_WINDOW_MS after the bucket was started; an arrival that
\* finds a stale bucket has it flushed without the new entry, and the new entry
\* goes into a bucket started at or after that arrival
C31_NoEntryPastWindow ==
    /\ StartedAtArrival
    /\ \A i \in 1..Len(fileReadBuckets) :
           \A k \in 1..Len(fileReadBuckets[i].entries) :
               InWindowOf(fileReadBuckets[i].entries[k], fileReadBuckets[i].id)
    /\ \A fi \in 1..Len(flushes) :
           /\ \A k \in 1..Len(flushes[fi].entries) :
                  InWindowOf(flushes[fi].entries[k], flushes[fi].bucket)
           /\ flushes[fi].trigger = "stale" =>
                  LET r == flushes[fi].owner
                  IN /\ r \notin Range(flushes[fi].entries)
                     /\ tlog[r].bucket # flushes[fi].bucket
                     /\ tlog[r].bucket # 0 => tlog[tlog[r].bucket].at >= tlog[r].at

\* C32: reaching the threshold is a flush trigger: a bucket is out of the map
\* as soon as it holds FILE_READ_BATCH_THRESHOLD entries, so no bucket in the
\* map ever holds that many (stated as the claim has it)
C32_FlushedAtThreshold ==
    \A i \in 1..Len(fileReadBuckets) :
        Len(fileReadBuckets[i].entries) < FILE_READ_BATCH_THRESHOLD

\* the probe is a flushed bucket that was collapsed
Summarised ==
    /\ probe.fn = "flushFileReadBucket" /\ probe.done
    /\ Len(probe.bucket.entries) >= FILE_READ_BATCH_THRESHOLD

\* C33: the one activity posted for a collapsed bucket has type file, status
\* error exactly when an entry of the bucket has status error and success
\* otherwise, importance 5 exactly when its status is error and 1 otherwise,
\* fileCount equal to the number of entries, and the directory and session
\* key of the bucket
C33_CollapsedSummary ==
    Summarised =>
        /\ Len(probe.posted) = 1
        /\ LET summary == probe.posted[1]
               entries == probe.bucket.entries
               errors == {k \in 1..Len(entries) : entries[k] = "error"}
           IN /\ summary.type = "file"
              /\ summary.status = (IF errors # {} THEN "error" ELSE "success")
              /\ summary.importance = (IF summary.status = "error" THEN 5 ELSE 1)
              /\ summary.fileCount = Len(entries)
              /\ summary.directory = probe.bucket.directory
              /\ summary.sessionKey = probe.bucket.sessionKey

\* a bucket of five entries or more, one of them an error and the latest a
\* success, was collapsed into a summary of status error
C33_Witness ==
    /\ Summarised
    /\ probe.bucket.entries[2] = "error"
    /\ probe.bucket.entries[Len(probe.bucket.entries)] = "success"
    /\ probe.posted[1].status = "error" /\ probe.posted[1].importance = 5

\* the buckets ever created, each named by the tool call that created it, and
\* those of them whose flush has begun
CreatedBuckets == {tlog[r].bucket : r \in 1..Len(tlog)} \ {0}
FlushingBuckets == {flushes[fi].bucket : fi \in 1..Len(flushes)}
TimersOf(key) == {tm \in timers : tm.key = key}

\* C34: each bucket in the map has exactly one armed timer for its key, its
\* own, and at least one entry; no timer is armed for a key without a bucket;
\* and the queuedFileReadBuckets of GET /health is the number of buckets whose
\* flush has not begun
C34_BucketsAndTimers ==
    /\ \A i \in 1..Len(fileReadBuckets) :
           /\ Cardinality(TimersOf(fileReadBuckets[i].key)) = 1
           /\ \A tm \in TimersOf(fileReadBuckets[i].key) : tm.bucket = fileReadBuckets[i].id
           /\ fileReadBuckets[i].entries # << >>
           /\ \A j \in 1..Len(fileReadBuckets) :
                  fileReadBuckets[i].key = fileReadBuckets[j].key => i = j
    /\ \A tm \in timers : HasBucket(fileReadBuckets, tm.key)
    /\ queuedFileReadBuckets(fileReadBuckets)
           = Cardinality(CreatedBuckets \ FlushingBuckets)

\* one bucket is being flushed, its post not yet answered, while the bucket of
\* another key waits in the map with its timer
C34_Witness ==
    /\ \E fi \in 1..Len(flushes) : ~flushes[fi].done
    /\ Len(fileReadBuckets) = 1 /\ Cardinality(timers) = 1
    /\ Cardinality(CreatedBuckets) = 2

\* no buffered entry is carried by two posts
PostedAtMostOnce == \A r \in 1..Len(tlog) : Cardinality(PostsCarrying(r)) <= 1
\* tool call r was answered 202 buffered
AcceptedBuffered(r) == r \in 1..Len(tlog) /\ tlog[r].resp = "202 buffered"
\* a post to the sink carries tool call r, alone or in a collapsed summary
Posted(r) == r \in 1..Len(tlog) /\ PostsCarrying(r) # {}

\* C35: while the relay keeps running and every sink call returns, every file
\* read answered with buffered:true is eventually carried by a post to the
\* sink, on its own or in a collapsed summary, and by no more than one post
C35_BufferedIsPosted ==
    /\ []PostedAtMostOnce
    /\ \A r \in 1..MaxLive : AcceptedBuffered(r) ~> Posted(r)

\* every file read was buffered and has been posted, one of them a read that
\* had waited for a stale flush, another after a failed post of its bucket
C35_Witness ==
    /\ Len(tlog) = MaxLive
    /\ \A r \in 1..Len(tlog) : AcceptedBuffered(r) /\ Posted(r)
    /\ \E p \in 1..Len(sink) : sink[p].result = "fail" /\ p < Len(sink)
    /\ \E fi \in 1..Len(flushes) :
           /\ flushes[fi].trigger = "stale" /\ flushes[fi].done
           /\ AlonePosts(flushes[fi].owner) # {}


(* ---- properties of the /events gate: failures, rejections, order ------ *)
\* the requests before i with the title of request i whose forward was not
\* answered with a failure (answered 200, or still in flight)
ForwardedBefore(i) ==
    {j \in 1..(i - 1) : /\ evlog[j].title = evlog[i].title
                        /\ evlog[j].resp \in {"200", "pending"}}

\* C36: a POST /events request is answered deduplicated only if a request with
\* the same title was forwarded to the sink, and not answered 502, within the
\* preceding DEDUP_WINDOW_MS; a forward that failed suppresses no retry
C36_DedupOnlyAfterForwarded ==
    \A i \in 1..Len(evlog) :
        evlog[i].resp = "dedup" =>
            \E j \in ForwardedBefore(i) : evlog[i].at - evlog[j].at <= DEDUP_WINDOW_MS


\* the step receives a /events request and answers it resp at once
AnsweredAtOnce(resp) ==
    /\ Len(evlog') = Len(evlog) + 1
    /\ evlog'[Len(evlog')].resp = resp
AllowedOfType(e) == {j \in 1..Len(evlog) : Allowed(evlog[j]) /\ evlog[j].event = e}
RecordedWithTitle(t) == {j \in 1..Len(evlog) : Recorded(evlog[j]) /\ evlog[j].title = t}

\* C37: rejections do not extend the windows. A request answered 429 changes
\* neither lastEventTime nor recentTitles, and a request answered deduplicated
\* leaves the time recorded for its title as it was; so the time kept for an
\* event type is the arrival of the last request of that type the rate limiter
\* let through, and the time kept for a title is the arrival of the last request
\* with that title that passed the duplicate gate.
C37_RejectionsKeepWindows ==
    /\ [](\A e \in DOMAIN lastEventTime :
              /\ AllowedOfType(e) # {}
              /\ lastEventTime[e] = evlog[Max(AllowedOfType(e))].at)
    /\ [](\A t \in DOMAIN recentTitles :
              /\ RecordedWithTitle(t) # {}
              /\ recentTitles[t] = evlog[Max(RecordedWithTitle(t))].at)
    /\ [][AnsweredAtOnce("429") =>
              (lastEventTime' = lastEventTime /\ recentTitles' = recentTitles)]_vars
    /\ [][AnsweredAtOnce("dedup") =>
              LET t == evlog'[Len(evlog')].title
              IN /\ t \in DOMAIN recentTitles /\ t \in DOMAIN recentTitles'
                 /\ recentTitles'[t] = recentTitles[t]]_vars

\* a request is recorded; one of its type and title is answered 429 in the last
\* millisecond of the rate window; one millisecond later the next one passes the
\* rate limiter, is answered deduplicated, and the title keeps its first time
C37_Witness ==
    /\ Len(evlog) = 3
    /\ Recorded(evlog[1])
    /\ \A k \in 2..3 : evlog[k].event = evlog[1].event /\ evlog[k].title = evlog[1].title
    /\ evlog[2].resp = "429" /\ evlog[2].at = evlog[1].at + RATE_LIMIT_MS - 1
    /\ evlog[3].resp = "dedup" /\ evlog[3].at = evlog[1].at + RATE_LIMIT_MS
    /\ lastEventTime[evlog[1].event] = evlog[3].at
    /\ recentTitles[evlog[1].title] = evlog[1].at


EventAnswers == {"400", "429", "dedup", "pending", "200", "502"}
\* C38: POST /events answers every request once and checks in the order
\* validation (400), rate limit (429), duplicate gate (deduplicated), forward
\* (200 or 502). An answer given is never changed; only a request that is
\* forwarded has a post, and exactly one; a request is answered deduplicated
\* only when it passed the rate limiter; and a request that passed the rate
\* limiter, even one then deduplicated or answered 502, makes every well-formed
\* request of its event type within RATE_LIMIT_MS a 429 whatever its title.
C38_OneAnswerInOrder ==
    /\ [](\A i \in 1..Len(evlog) :
              /\ evlog[i].resp \in EventAnswers
              /\ (evlog[i].resp = "400") <=> ~WellFormed(evlog[i])
              /\ IF evlog[i].resp \in {"pending", "200", "502"}
                 THEN PostsOfEvent(i) = {evlog[i].post}
                 ELSE evlog[i].post = 0 /\ PostsOfEvent(i) = {}
              /\ (evlog[i].resp = "dedup") =>
                     \A j \in AllowedBefore(i) : evlog[i].at - evlog[j].at >= RATE_LIMIT_MS)
    /\ [](\A i, k \in 1..Len(evlog) :
              (/\ i < k
               /\ Allowed(evlog[i]) /\ WellFormed(evlog[k])
               /\ evlog[k].event = evlog[i].event
               /\ evlog[k].at - evlog[i].at < RATE_LIMIT_MS)
              => evlog[k].resp = "429")
    /\ [][/\ Len(evlog') >= Len(evlog)
          /\ \A i \in 1..Len(evlog) :
                 IF evlog[i].resp = "pending"
                 THEN evlog'[i].resp \in {"pending", "200", "502"}
                 ELSE evlog'[i] = evlog[i]]_vars

\* a request answered 502, a request of another event type with its title
\* answered deduplicated at the same instant, and 999 ms later a request of
\* that event type with a title never seen answered 429
C38_Witness ==
    /\ Len(evlog) = 3
    /\ evlog[1].resp = "502"
    /\ evlog[2].resp = "dedup" /\ evlog[2].title = evlog[1].title
    /\ evlog[2].event # evlog[1].event /\ evlog[2].at = evlog[1].at
    /\ evlog[3].resp = "429" /\ evlog[3].event = evlog[2].event
    /\ evlog[3].title \notin {evlog[1].title, Missing}
    /\ evlog[3].at = evlog[2].at + RATE_LIMIT_MS - 1


(* ---- backfill scanner: duplicates by tool call, the state file -------- *)
\* the entries before e, in the run of e, that handled the tool call of e
\* without skipping it as a duplicate of the run
SameCallBefore(e) ==
    {e2 \in 1..(e - 1) : /\ trail[e2].run = trail[e].run
                         /\ trail[e2].kind \in {"sent", "failed", "dryRun", "dupConvex"}
                         /\ trail[e2].activity.toolCallId = trail[e].activity.toolCallId}

\* C39: the backfill skips a result as a duplicate only if an activity of the
\* same tool call is in the store or was handled earlier in the run; results of
\* different tool calls are each forwarded
C39_DuplicateOnlySameCall ==
    \A e \in 1..Len(trail) :
        trail[e].kind \in {"dupRun", "dupConvex"} =>
            \/ \E a \in store : a.toolCallId = trail[e].activity.toolCallId
            \/ SameCallBefore(e) # {}


\* the entries of run r that end the processing of a file: its last line was
\* read, or a post failed
FileEnds(r) == {e \in EventsOf(r) : trail[e].kind \in {"close", "failed"}}
\* the state document of run r holds, for every file the run processed, the
\* offset the run reached in it
HoldsOffsets(r) ==
    \A e \in FileEnds(r) :
        LET path == files[trail[e].file].path
        IN /\ path \in DOMAIN hist[r].after.files
           /\ hist[r].after.files[path] = trail[e].line
\* the step writes the state file: it is the save at the end of a run that is
\* neither a dry run nor aborted
WritesState ==
    /\ run.pc = "save" /\ run'.pc = "done"
    /\ ~run.opts.dryRun /\ ~run'.fatal
    /\ ~run.saved /\ run'.saved
    /\ stateFile' = hist'[Len(hist')].after

\* C40: a run that is not a dry run writes the state file exactly once, as its
\* last step, after the last file was processed or the scan halted on a failed
\* post, and the state written holds the offset reached in every file the run
\* processed, the halted one included; a run that aborts with a fatal error
\* writes nothing, and the state file changes in no other step
C40_StateWrittenOnce ==
    /\ [](\A r \in Runs :
              /\ hist[r].saved <=>
                     (hist[r].opts.valid /\ ~hist[r].opts.dryRun /\ ~hist[r].fatal)
              /\ hist[r].saved => HoldsOffsets(r))
    /\ [](run.pc \notin {"idle", "done"} => ~run.saved)
    /\ [][(stateFile' # stateFile \/ run'.saved # run.saved) =>
              (WritesState \/ (run.pc \in {"idle", "done"} /\ ~run'.saved))]_vars

\* a run read its first file to the end, halted in the second on a failed post
\* and saved both offsets; the next run aborted on its dedup queries and the
\* state file is as the first run wrote it
C40_Witness ==
    /\ Len(hist) = 2
    /\ hist[1].saved /\ hist[1].opened = 2 /\ Len(files) = 2
    /\ \E e, e2 \in FileEnds(1) :
           /\ trail[e].kind = "close" /\ trail[e].file = 1
           /\ trail[e2].kind = "failed" /\ trail[e2].file = 2
           /\ hist[1].after.files[files[2].path] = trail[e2].line
    /\ hist[2].fatal /\ ~hist[2].opts.dryRun /\ hist[2].opts.valid
    /\ stateFile = hist[1].after
====
